---------------------------- MODULE Spec2Model ----------------------------
(***************************************************************************)
(* Verification model of the discrete optimisation engine of               *)
(* spherical_uniform_sampling / qspace_direction: the metric library       *)
(* (loss.py), subset selection (subsample.py, milp.py), polarity flip      *)
(* (flip.py), incremental ordering (packing_density.py) and the            *)
(* bvec/bval combination script (combine_bvec_bval.py, io_util.py).        *)
(*                                                                         *)
(* Numbers.  A point is a triple of integers; every point of one input has *)
(* the same squared norm (9, or 3 for the cube vertices), and stands for   *)
(* the unit vector p / |p|.  Inner products of unit vectors are kept in    *)
(* ninths (an integer in -9..9), angles in units of 1e-4 rad, taken from   *)
(* the arccos table below.                                                 *)
(*                                                                         *)
(* Solver.  m.optimize() is the external MILP solver.  It is modelled by   *)
(* its contract: it ends with a status, and when a solution is available   *)
(* the binary variables hold exact 0/1 values satisfying every constraint  *)
(* the code added.  With status OPTIMAL the solution has the best          *)
(* objective; with TIME_LIMIT it is any feasible incumbent.                *)
(***************************************************************************)
EXTENDS Integers, Sequences, FiniteSets, TLC

VARIABLES
    op,                 \* the routine that was called
    pc,                 \* position in the routine: "start", ..., "done" | "error"
    points,             \* input: list of point groups (one group for single-shell routines)
    antipodal,          \* input flag
    points_per_shell,   \* input of subset selection: K (single) or K_s per shell
    points_per_split,   \* input of incremental ordering: batch sizes
    bvalues,            \* input: one scalar label per point group
    time_limit,         \* input of incremental ordering: <<type, value>>
    status,             \* solver status after m.optimize()
    h,                  \* solver solution: the binary decision variables
    calls,              \* number of m.optimize() invocations
    picked_points,      \* ordering: points already sorted (fixed)
    remained_points,    \* ordering: points still to sort (incre)
    fixed_bval,         \* multi-shell ordering: b-values of picked_points
    incre_bval,         \* multi-shell ordering: b-values of remained_points
    greedy_init,        \* greedy_sorting_init: init, index of the first point
    warm_start,         \* the points the batch model was started with, by slot
    greedy_ind,         \* greedy_sorting_init: ind, the indices chosen so far
    greedy_radius,      \* greedy_sorting_init: radius, the running cap
    result,             \* the value returned (or the list being built)
    cr,                 \* value returned by covering_radius
    files               \* names of the output files written so far

vars == <<op, pc, points, antipodal, points_per_shell, points_per_split, bvalues,
          time_limit,
          status, h, calls, picked_points, remained_points, fixed_bval, incre_bval,
          warm_start,
          greedy_init, greedy_ind, greedy_radius,
          result, cr, files>>

-----------------------------------------------------------------------------
(* Bounds of the model *)

\* longest point list given to covering_radius
MaxMetricN == 3

\* largest candidate pool of subset selection (besides the 8 cube vertices)
MaxSubsetN == 4

\* largest number of points requested for one shell in multi-shell subset selection
MaxK == 2

\* largest number of shells
MaxShells == 2

\* the longest input of a single-shell flip, and the longest shell of a multi-shell flip
MaxFlipN == 4

MaxFlipShellN == 2

\* the most groups, the longest group and the most labels given to the combination
MaxGroups == 2

MaxGroupN == 2

MaxLabels == 3

\* the most points given to the single-shell ordering, and to the multi-shell ordering
MaxOrderN == 3

MaxMultiOrderN == 3

\* the longest lists given to packing_density_loss, and the largest count given
\* to covering_radius_upper_bound
MaxLossN == 2

MaxBoundN == 12

MaxLimits == 2

\* the largest number of points given to cnlo_optimize
MaxCnloN == 6

\* the continuous variable x[i, j] takes the values 0, 1/XScale, .., 1
XScale == 4

\* the largest number of points given to greedy_sorting_init
MaxGreedyN == 4

-----------------------------------------------------------------------------
(* Points and arithmetic *)

\* points of squared norm 9
Universe ==
    { <<-3, 0, 0>>, <<3, 0, 0>>, <<0, -3, 0>>,
      <<-2, -2, -1>>, <<2, 2, -1>>, <<1, 2, 2>> }

\* the 8 vertices of a cube (squared norm 3), in a fixed order
CubeVertices ==
    << <<1, 1, 1>>, <<1, 1, -1>>, <<1, -1, 1>>, <<1, -1, -1>>,
       <<-1, 1, 1>>, <<-1, 1, -1>>, <<-1, -1, 1>>, <<-1, -1, -1>> >>

Abs(x) == IF x < 0 THEN -x ELSE x

Min2(a, b) == IF a <= b THEN a ELSE b

Max2(a, b) == IF a >= b THEN a ELSE b

SetMax(S) == CHOOSE x \in S : \A y \in S : y <= x

SetMin(S) == CHOOSE x \in S : \A y \in S : x <= y

\* np.clip(x, lo, hi)
Clip(x, lo, hi) == IF x < lo THEN lo ELSE IF x > hi THEN hi ELSE x

Dot(p, q) == p[1] * q[1] + p[2] * q[2] + p[3] * q[3]

\* unary minus on a point: -points[i]
Neg(p) == <<-p[1], -p[2], -p[3]>>

\* one entry of points @ points.T for unit vectors, in ninths
InnerProduct(p, q) == (9 * Dot(p, q)) \div Dot(p, p)

\* np.pi / 2 and np.pi, in 1e-4 rad
PiHalf == 15708

Pi == 31416

\* np.arccos(c / 9) in 1e-4 rad, for c = -9 .. 9
ArcCosTable ==
    << 31416, 26657, 24619, 23005, 21598, 20314, 19106, 17949, 16821, 15708,
       14595, 13467, 12310, 11102, 9818, 8411, 6797, 4759, 0 >>

ArcCos(c) == ArcCosTable[c + 10]

\* transform = np.abs if antipodal else identity
Transform_Identity(anti, x) == x

Transform(anti, x) == IF anti THEN Abs(x) ELSE x

\* all sequences over S of length lo .. hi
SeqsOf(S, lo, hi) == UNION { [1..n -> S] : n \in lo..hi }

\* flatten a list of lists: np.concatenate
RECURSIVE Concat(_)
Concat(ll) == IF ll = <<>> THEN <<>> ELSE Head(ll) \o Concat(Tail(ll))

-----------------------------------------------------------------------------
(* Metric library: loss.py *)

\* np.triu(innerProductAll, 1): the entries on and below the diagonal are 0
TriuEntries_LastColumn(vects, anti) ==
    { IF j > i /\ j = Len(vects) THEN Transform(anti, InnerProduct(vects[i], vects[j])) ELSE 0 :
        i \in 1..Len(vects), j \in 1..Len(vects) }

TriuEntries(vects, anti) ==
    { IF j > i THEN Transform(anti, InnerProduct(vects[i], vects[j])) ELSE 0 :
        i \in 1..Len(vects), j \in 1..Len(vects) }

\* covering_radius(vects, antipodal)
covering_radius(vects, anti) ==
    ArcCos(Clip(SetMax(TriuEntries(vects, anti)), -9, 9))

\* the inner products of the distinct pairs i < j, as the documentation of
\* covering_radius describes them
PairProducts(vects, anti) ==
    { Transform(anti, InnerProduct(vects[pr[1]], vects[pr[2]])) :
        pr \in { q \in (1..Len(vects)) \X (1..Len(vects)) : q[1] < q[2] } }

-----------------------------------------------------------------------------
(* Values of the variables a specification does not use *)

NoSolver == status = "NOT_RUN" /\ h = <<>> /\ calls = 0

NoSubsetArgs == points_per_shell = <<>>

NoOrderArgs == points_per_split = <<>> /\ bvalues = <<>>

NoGreedy == greedy_init = 0 /\ greedy_ind = <<>> /\ greedy_radius = 0 - 1

NoOrderState ==
    /\ picked_points = <<>> /\ remained_points = <<>>
    /\ fixed_bval = <<>> /\ incre_bval = <<>> /\ warm_start = <<>>
    /\ NoGreedy

NoMetric == cr = 0 - 1

NoTimeLimit == time_limit = <<>>

NoFiles == files = {}

inputVars == <<op, points, antipodal, points_per_shell, points_per_split, bvalues,
               time_limit>>

solverVars == <<status, h, calls>>

orderVars == <<picked_points, remained_points, fixed_bval, incre_bval, warm_start>>

greedyVars == <<greedy_init, greedy_ind, greedy_radius>>

-----------------------------------------------------------------------------
(* Specification of the metric library: covering_radius is applied to every *)
(* list of 2 .. MaxMetricN points of the universe, with both flags.         *)

InitMetric ==
    /\ op = "covering_radius"
    /\ pc = "start"
    /\ points \in { <<v>> : v \in SeqsOf(Universe, 2, MaxMetricN) }
    /\ antipodal \in BOOLEAN
    /\ result = <<>>
    /\ NoSubsetArgs /\ NoOrderArgs /\ NoSolver /\ NoTimeLimit /\ NoOrderState /\ NoMetric /\ NoFiles

CoveringRadiusCall ==
    /\ op = "covering_radius" /\ pc = "start"
    /\ cr' = covering_radius(points[1], antipodal)
    /\ pc' = "done"
    /\ UNCHANGED <<inputVars, greedyVars, solverVars, orderVars, result, files>>

NextMetric == CoveringRadiusCall

SpecMetric == InitMetric /\ [][NextMetric]_vars

\* C7: for at least two unit vectors and both flags, covering_radius returns the
\* arccosine of the maximum over the distinct pairs i < j of the inner product
\* (absolute value iff antipodal), so its range is [0, pi/2] when antipodal and
\* [0, pi] otherwise.
C7_CoveringRadiusIsArccosOfMaxPair ==
    (op = "covering_radius" /\ pc = "done") =>
        /\ cr = ArcCos(SetMax(PairProducts(points[1], antipodal)))
        /\ cr >= 0
        /\ cr <= (IF antipodal THEN PiHalf ELSE Pi)

-----------------------------------------------------------------------------
(* The external solver: m.optimize() and the retrieval of a solution *)

\* m.optimize(): the statuses and solutions the solver can end with, given the
\* feasible solutions of the model and the ones with the best objective
Optimize(feasible, best) ==
    IF feasible = {}
    THEN { <<"INFEASIBLE", <<>>>> }
    ELSE { <<"OPTIMAL", s>> : s \in best }
         \cup { <<"TIME_LIMIT", s>> : s \in feasible }
         \cup { <<"TIME_LIMIT_NO_SOLUTION", <<>>>> }

\* m.getVarByName(...).X: reading a value raises unless a solution is available
HasSolution(st) == st \in {"OPTIMAL", "TIME_LIMIT"}

\* the end of a routine after m.optimize(): the list built from the X values is
\* returned, or the exception raised by the first read of X leaves the routine;
\* the value is <<pc, result>>
ReturnOrRaise_Swallowed(st, value) ==
    IF HasSolution(st) THEN <<"done", value>> ELSE <<"done", <<>>>>

ReturnOrRaise(st, value) ==
    IF HasSolution(st) THEN <<"done", value>> ELSE <<"error", <<>>>>

-----------------------------------------------------------------------------
(* Subset selection: subsample.py (milp.py holds the same models as pdss, pdms) *)

\* not-a-number, the result of float arithmetic on 0/0 or sqrt of a negative
NaN == 0 - 1

\* covering_radius_upper_bound(num) in 1e-4 rad, for num = 3 .. 20
UpperBoundTable ==
    << 20944, 19106, 17193, 15708, 14538, 13591, 12805, 12141, 11569,
       11071, 10633, 10242, 9891, 9574, 9286, 9022, 8779, 8554 >>

\* covering_radius_upper_bound(num); isInt: num is a Python int (isinstance(num, int)),
\* as opposed to a numpy integer or a numpy array element
covering_radius_upper_bound(num, isInt) ==
    IF isInt /\ num < 3 THEN PiHalf
    ELSE IF num < 3 THEN NaN
    ELSE UpperBoundTable[num - 2]

\* M = 2, in 1e-4 rad
M == 20000

\* dis = np.arccos(np.clip(transform(points @ points.T), -1, 1))
SubsetDis(pts, anti, i, j) ==
    ArcCos(Clip(Transform(anti, InnerProduct(pts[i], pts[j])), -9, 9))

IndexPairs(N) == { q \in (1..N) \X (1..N) : q[1] < q[2] }

RECURSIVE SumSeq(_)
SumSeq(f) == IF f = <<>> THEN 0 ELSE Head(f) + SumSeq(Tail(f))

\* the binary vectors of length N
BinaryVectors(N) == [1..N -> {0, 1}]

\* constraint 10d: h.sum() == K
Constraint10d_AtMost(hh, K) == SumSeq(hh) <= K

Constraint10d(hh, K) == SumSeq(hh) = K

\* the largest theta that constraints 10b and the bounds of theta allow for hh
SingleTheta(pts, K, anti, hh) ==
    SetMin({ covering_radius_upper_bound(2 * K, TRUE) } \cup
           { SubsetDis(pts, anti, q[1], q[2]) + M * (2 - hh[q[1]] - hh[q[2]]) :
               q \in IndexPairs(Len(pts)) })

\* the feasible assignments of model PDSS (lb = None: theta >= 0)
SingleFeasible(pts, K, anti) ==
    { hh \in BinaryVectors(Len(pts)) :
        Constraint10d(hh, K) /\ SingleTheta(pts, K, anti, hh) >= 0 }

\* m.setObjective(theta, GRB.MAXIMIZE)
SingleBest_Minimize(pts, K, anti) ==
    LET F == SingleFeasible(pts, K, anti)
        worst == SetMin({ SingleTheta(pts, K, anti, hh) : hh \in F })
    IN { hh \in F : SingleTheta(pts, K, anti, hh) = worst }

SingleBest(pts, K, anti) ==
    LET F == SingleFeasible(pts, K, anti)
        best == SetMax({ SingleTheta(pts, K, anti, hh) : hh \in F })
    IN { hh \in F : SingleTheta(pts, K, anti, hh) = best }

\* l = [points[i] for i in range(N) if h[i].X == 1]
RECURSIVE SelectPoints(_, _)
SelectPoints(pts, hh) ==
    IF pts = <<>> THEN <<>>
    ELSE (IF Head(hh) = 1 THEN <<Head(pts)>> ELSE <<>>) \o SelectPoints(Tail(pts), Tail(hh))

single_subset_from_single_set ==
    /\ op = "single_subset_from_single_set" /\ pc = "start"
    /\ LET pts == points[1]
           K == points_per_shell[1]
       IN \E o \in Optimize(SingleFeasible(pts, K, antipodal), SingleBest(pts, K, antipodal)) :
            /\ status' = o[1]
            /\ h' = o[2]
            /\ calls' = calls + 1
            /\ LET r == ReturnOrRaise(o[1], <<SelectPoints(pts, o[2])>>)
               IN pc' = r[1] /\ result' = r[2]
    /\ UNCHANGED <<inputVars, greedyVars, orderVars, cr, files>>

\* the binary vectors of length N with k ones
VectorsWithSum(N, k) == { hh \in BinaryVectors(N) : SumSeq(hh) = k }

\* constraints 11e1: h.sum("*", s) == points_per_shell[s] for every shell s;
\* a solution is a list of columns hh[s], hh[s][i] being h[i, s]
RECURSIVE Constraint11e1(_, _)
Constraint11e1(N, Ks) ==
    IF Ks = <<>> THEN { <<>> }
    ELSE { <<c>> \o m : c \in VectorsWithSum(N, Head(Ks)), m \in Constraint11e1(N, Tail(Ks)) }

\* m.addSOS(GRB.SOS_TYPE1, [h[i, s] for s in range(S)]) for every point i:
\* at most one of h[i, 0], ..., h[i, S-1] is non-zero
SOS1_Dropped(hh, N) == TRUE

SOS1(hh, N) ==
    \A i \in 1..N : Cardinality({ s \in 1..Len(hh) : hh[s][i] # 0 }) <= 1

\* an upper bound of a variable, as a set: NaN bounds nothing
Bound(u) == IF u = NaN THEN {} ELSE {u}

\* ub of theta_s: covering_radius_upper_bound(2 * points_per_shell), elementwise on
\* a numpy array
ThetaSUpperBound(Ks, s) == covering_radius_upper_bound(2 * Ks[s], FALSE)

\* ub of theta_0: covering_radius_upper_bound(2 * np.sum(points_per_shell))
Theta0UpperBound(Ks) == covering_radius_upper_bound(2 * SumSeq(Ks), FALSE)

\* the largest theta_s[s] that constraints 11b and its bounds allow for hh
MultiThetaS(pts, Ks, anti, hh, s) ==
    SetMin(Bound(ThetaSUpperBound(Ks, s)) \cup
           { SubsetDis(pts, anti, q[1], q[2]) + M * (2 - hh[s][q[1]] - hh[s][q[2]]) :
               q \in IndexPairs(Len(pts)) })

\* the largest theta_0 that constraints 11c and its bounds allow for hh
MultiTheta0(pts, Ks, anti, hh) ==
    SetMin(Bound(Theta0UpperBound(Ks)) \cup
           { SubsetDis(pts, anti, q[1], q[2]) + M * (2 - hh[st[1]][q[1]] - hh[st[2]][q[2]]) :
               q \in IndexPairs(Len(pts)), st \in (1..Len(Ks)) \X (1..Len(Ks)) })

\* the feasible assignments of model PDMS (lb = None: every theta >= 0)
MultiFeasible(pts, Ks, anti) ==
    { hh \in Constraint11e1(Len(pts), Ks) :
        /\ SOS1(hh, Len(pts))
        /\ MultiTheta0(pts, Ks, anti, hh) >= 0
        /\ \A s \in 1..Len(Ks) : MultiThetaS(pts, Ks, anti, hh, s) >= 0 }

\* w / S * theta_s.sum() + (1 - w) * theta_0 with w = 0.5, times 2 * S
MultiObjective(pts, Ks, anti, hh) ==
    SumSeq([s \in 1..Len(Ks) |-> MultiThetaS(pts, Ks, anti, hh, s)])
    + Len(Ks) * MultiTheta0(pts, Ks, anti, hh)

MultiBest(pts, Ks, anti) ==
    LET F == MultiFeasible(pts, Ks, anti)
        best == SetMax({ MultiObjective(pts, Ks, anti, hh) : hh \in F })
    IN { hh \in F : MultiObjective(pts, Ks, anti, hh) = best }

\* l[s].append(points[i]) for every h[i, s].X == 1
SelectPerShell(pts, hh) == [s \in 1..Len(hh) |-> SelectPoints(pts, hh[s])]

multiple_subset_from_single_set ==
    /\ op = "multiple_subset_from_single_set" /\ pc = "start"
    /\ LET pts == points[1]
           Ks == points_per_shell
           nanBound == \/ Theta0UpperBound(Ks) = NaN
                       \/ \E s \in 1..Len(Ks) : ThetaSUpperBound(Ks, s) = NaN
       IN \/ \* m.addVars(..., ub=nan) is refused by the solver interface
             /\ nanBound
             /\ pc' = "error" /\ result' = <<>>
             /\ UNCHANGED solverVars
          \/ \E o \in Optimize(MultiFeasible(pts, Ks, antipodal), MultiBest(pts, Ks, antipodal)) :
                /\ status' = o[1]
                /\ h' = o[2]
                /\ calls' = calls + 1
                /\ LET r == ReturnOrRaise(o[1], SelectPerShell(pts, o[2]))
                   IN pc' = r[1] /\ result' = r[2]
    /\ UNCHANGED <<inputVars, greedyVars, orderVars, cr, files>>

-----------------------------------------------------------------------------
(* Specification of subset selection *)

\* candidate points of the single-subset runs (besides the cube vertices)
SubsetUniverse == { <<3, 0, 0>>, <<2, 2, -1>>, <<1, 2, 2>> }

\* candidate points of the multi-subset runs
PoolUniverse == { <<3, 0, 0>>, <<1, 2, 2>> }

InitSubset ==
    /\ pc = "start"
    /\ \/ /\ op = "single_subset_from_single_set"
          /\ points \in { <<CubeVertices>> } \cup
                        { <<v>> : v \in SeqsOf(SubsetUniverse, 1, MaxSubsetN) }
          /\ points_per_shell \in { <<K>> : K \in 0..(Len(points[1]) + 1) }
       \/ /\ op = "multiple_subset_from_single_set"
          /\ points \in { <<v>> : v \in SeqsOf(PoolUniverse, 2, MaxSubsetN) }
          /\ points_per_shell \in SeqsOf(1..MaxK, 2, MaxShells)
    /\ antipodal \in BOOLEAN
    /\ result = <<>>
    /\ NoOrderArgs /\ NoSolver /\ NoTimeLimit /\ NoOrderState /\ NoMetric /\ NoFiles

NextSubset ==
    \/ single_subset_from_single_set
    \/ multiple_subset_from_single_set

SpecSubset == InitSubset /\ [][NextSubset]_vars

\* r is p with some entries left out: the entries of r are entries of p at
\* pairwise distinct, increasing positions
RECURSIVE IsSubseq(_, _)
IsSubseq(r, p) ==
    IF r = <<>> THEN TRUE
    ELSE IF p = <<>> THEN FALSE
    ELSE IF Head(r) = Head(p) THEN IsSubseq(Tail(r), Tail(p))
    ELSE IsSubseq(r, Tail(p))

\* the smallest angle between two distinct points of v
MinPairAngle(v) == ArcCos(SetMax(PairProducts(v, FALSE)))

\* C3: single subset selection of K points from N candidates returns exactly K
\* points, at pairwise distinct candidate indices, each an unmodified member of
\* the input, for every solution the solver returns.
C3_SingleSubsetReturnsKInputPoints ==
    (op = "single_subset_from_single_set" /\ pc = "done") =>
        /\ Len(result) = 1
        /\ Len(result[1]) = points_per_shell[1]
        /\ IsSubseq(result[1], points[1])

C3_Witness ==
    /\ op = "single_subset_from_single_set" /\ pc = "done"
    /\ status = "TIME_LIMIT"
    /\ Len(points[1]) = 3 /\ points_per_shell[1] = 2
    /\ result[1] = <<points[1][1], points[1][3]>>

\* C4: in every solution returned by multiple_subset_from_single_set, shell s
\* receives exactly points_per_shell[s] points, and no candidate point is
\* assigned to more than one shell.
C4_MultiSubsetCountsAndExclusive ==
    (op = "multiple_subset_from_single_set" /\ pc = "done") =>
        /\ Len(result) = Len(points_per_shell)
        /\ \A s \in 1..Len(points_per_shell) :
              /\ Len(result[s]) = points_per_shell[s]
              /\ IsSubseq(result[s], points[1])
        /\ \A i \in 1..Len(points[1]) :
              Cardinality({ s \in 1..Len(points_per_shell) : h[s][i] = 1 }) <= 1

C4_Witness ==
    /\ op = "multiple_subset_from_single_set" /\ pc = "done"
    /\ points_per_shell = <<2, 2>> /\ Len(points[1]) = 4
    /\ h[1] = <<1, 0, 0, 1>> /\ h[2] = <<0, 1, 1, 0>>

\* the cube scenario: K = 4 of the 8 cube vertices, antipodal = false, solved to
\* optimality
CubeScenario ==
    /\ op = "single_subset_from_single_set" /\ pc = "done"
    /\ points = <<CubeVertices>> /\ points_per_shell = <<4>>
    /\ antipodal = FALSE /\ status = "OPTIMAL"

\* C8 as stated: the selection of the cube scenario has a minimum pairwise angle
\* equal to the angle between adjacent cube vertices, arccos(1/3) ~ 70.5 degrees.
C8_CubeFourIsAdjacentAngle ==
    CubeScenario => MinPairAngle(result[1]) = ArcCos(3)

\* C8 amended: the selection of the cube scenario is a regular tetrahedron, its
\* minimum pairwise angle is the angle between the two ends of a face diagonal,
\* arccos(-1/3) ~ 109.5 degrees.
C8_CubeFourIsTetrahedron ==
    CubeScenario =>
        /\ Len(result[1]) = 4
        /\ MinPairAngle(result[1]) = ArcCos(0 - 3)

C8_Witness == CubeScenario /\ result[1][1] = CubeVertices[1]

\* C10: when the model of a subset-selection call is infeasible (for example the
\* requested counts sum to more than the N candidates of the shared pool), the
\* call ends in an error, returns no selection, and the solver was invoked
\* exactly once.
C10_InfeasibleIsErrorWithoutRetry ==
    /\ status = "INFEASIBLE" => (pc = "error" /\ result = <<>> /\ calls = 1)
    /\ (/\ op \in {"single_subset_from_single_set", "multiple_subset_from_single_set"}
        /\ pc # "start"
        /\ SumSeq(points_per_shell) > Len(points[1]))
       => (pc = "error" /\ result = <<>> /\ calls <= 1)

C10_Witness ==
    /\ op = "multiple_subset_from_single_set"
    /\ status = "INFEASIBLE" /\ pc = "error"
    /\ points_per_shell = <<2, 2>> /\ Len(points[1]) = 3

-----------------------------------------------------------------------------
(* Polarity flip: flip.py *)

\* the value the four linearization inequalities leave to x[i, j]:
\* x <= h_i + h_j, x >= h_i - h_j, x >= h_j - h_i, x <= 2 - h_i - h_j
FlipX(a, b) ==
    CHOOSE x \in 0..1 : x <= a + b /\ x >= a - b /\ x >= b - a /\ x <= 2 - a - b

\* (1 - x) * dis + x * (np.pi - dis)
FlippedAngle_Unflipped(dis, x) == dis

FlippedAngle(dis, x) == (1 - x) * dis + x * (Pi - dis)

\* dis = np.arccos(np.clip(points @ points.T, -1, 1))
FlipDis(p, q) == ArcCos(Clip(InnerProduct(p, q), -9, 9))

\* l.append(-points[i]) if h[i].X == 1 else l.append(points[i])
FlipPoints_Mirrored(pts, hh) ==
    [i \in 1..Len(pts) |->
       IF hh[i] = 1 THEN <<0 - pts[i][1], pts[i][2], pts[i][3]>> ELSE pts[i]]

FlipPoints(pts, hh) ==
    [i \in 1..Len(pts) |-> IF hh[i] = 1 THEN Neg(pts[i]) ELSE pts[i]]

\* the statuses and solutions of a maximisation whose objective has no bound
Unbounded == { <<"UNBOUNDED", <<>>>> }

\* dirflip: the largest theta the angle constraints allow for hh (theta >= 0)
DirflipTheta(pts, hh) ==
    SetMin({ FlippedAngle(FlipDis(pts[q[1]], pts[q[2]]), FlipX(hh[q[1]], hh[q[2]])) :
               q \in IndexPairs(Len(pts)) })

\* m.setObjective(theta, GRB.MAXIMIZE)
DirflipBest(pts) ==
    LET best == SetMax({ DirflipTheta(pts, hh) : hh \in BinaryVectors(Len(pts)) })
    IN { hh \in BinaryVectors(Len(pts)) : DirflipTheta(pts, hh) = best }

dirflip ==
    /\ op = "dirflip" /\ pc = "start"
    /\ LET pts == points[1]
       IN \E o \in (IF Len(pts) < 2 THEN Unbounded
                    ELSE Optimize(BinaryVectors(Len(pts)), DirflipBest(pts))) :
            /\ status' = o[1]
            /\ h' = o[2]
            /\ calls' = calls + 1
            /\ LET r == ReturnOrRaise(o[1], <<FlipPoints(pts, o[2])>>)
               IN pc' = r[1] /\ result' = r[2]
    /\ UNCHANGED <<inputVars, greedyVars, orderVars, cr, files>>

\* f = lambda x: 1 / ((1 - x) ** order), order = 1, for x = c / 9 with c < 9,
\* in units of 9 / 720720 (720720 is a multiple of every 9 - c for c = -7 .. 8)
EnergyTerm(c) == IF c = 9 THEN 0 ELSE 720720 \div (9 - c)

\* f(1): the float division 1 / 0.0, or 1 / 1.1e-16 when the product of two
\* coincident points is rounded below 1; counted apart from the finite terms
HugeTerm(c) == IF c = 9 THEN 1 ELSE 0

\* the inner product of a pair after the flips: (1 - x) * f(dis) + x * f(-dis)
FlippedProduct(c, x) == IF x = 1 THEN 0 - c ELSE c

\* an objective <<number of huge terms, sum of the finite terms>>: a <= b
EnergyLeq(a, b) == a[1] < b[1] \/ (a[1] = b[1] /\ a[2] <= b[2])

\* the inner product of the pair q of pts after the flips hh
PairAfter(pts, hh, q) ==
    FlippedProduct(Clip(InnerProduct(pts[q[1]], pts[q[2]]), -9, 9),
                   FlipX(hh[q[1]], hh[q[2]]))

\* the sum over the pairs Q of the huge (f = 1) or of the finite (f = 2) terms
RECURSIVE EnergySum(_, _, _, _)
EnergySum(pts, hh, Q, f) ==
    IF Q = {} THEN 0
    ELSE LET q == CHOOSE q \in Q : TRUE
         IN (IF f = 1 THEN HugeTerm(PairAfter(pts, hh, q))
             ELSE EnergyTerm(PairAfter(pts, hh, q)))
              + EnergySum(pts, hh, Q \ {q}, f)

\* the objective of dirflipEEM for hh
EEMObjective(pts, hh) ==
    << EnergySum(pts, hh, IndexPairs(Len(pts)), 1),
       EnergySum(pts, hh, IndexPairs(Len(pts)), 2) >>

\* m.setObjective(..., GRB.MINIMIZE)
EEMBest(pts) ==
    LET objs == { EEMObjective(pts, hh) : hh \in BinaryVectors(Len(pts)) }
        best == CHOOSE a \in objs : \A b \in objs : EnergyLeq(a, b)
    IN { hh \in BinaryVectors(Len(pts)) : EEMObjective(pts, hh) = best }

\* some energy coefficient is 1 / 0.0 = inf: a coincident or antipodal pair
InfiniteCoefficient(pts) ==
    \E q \in IndexPairs(Len(pts)) : Abs(InnerProduct(pts[q[1]], pts[q[2]])) >= 9

dirflipEEM ==
    /\ op = "dirflipEEM" /\ pc = "start"
    /\ LET pts == points[1]
       IN \/ \* m.setObjective refuses an infinite coefficient
             /\ InfiniteCoefficient(pts)
             /\ pc' = "error" /\ result' = <<>>
             /\ UNCHANGED solverVars
          \/ \E o \in Optimize(BinaryVectors(Len(pts)), EEMBest(pts)) :
                /\ status' = o[1]
                /\ h' = o[2]
                /\ calls' = calls + 1
                /\ LET r == ReturnOrRaise(o[1], <<FlipPoints(pts, o[2])>>)
                   IN pc' = r[1] /\ result' = r[2]
    /\ UNCHANGED <<inputVars, greedyVars, orderVars, cr, files>>

\* one binary vector per shell: h[i, s] for s in range(S) for i in range(N_s[s])
ShellVectors(pts) ==
    { hh \in [1..Len(pts) -> UNION { BinaryVectors(Len(pts[s])) : s \in 1..Len(pts) }] :
        \A s \in 1..Len(pts) : Len(hh[s]) = Len(pts[s]) }

\* product(range(N_s[s]), range(N_s[t])) for s, t in combinations(range(S), 2)
CrossPairs(pts) ==
    { q \in (1..Len(pts)) \X (1..MaxFlipShellN) \X (1..Len(pts)) \X (1..MaxFlipShellN) :
        q[1] < q[3] /\ q[2] <= Len(pts[q[1]]) /\ q[4] <= Len(pts[q[3]]) }

\* the largest theta_s[s] the constraints of shell s allow for hh
FlipThetaS(pts, hh, s) == DirflipTheta(pts[s], hh[s])

\* the largest theta_0 the constraints between the shells allow for hh
FlipTheta0(pts, hh) ==
    SetMin({ FlippedAngle(FlipDis(pts[q[1]][q[2]], pts[q[3]][q[4]]),
                          FlipX(hh[q[1]][q[2]], hh[q[3]][q[4]])) :
               q \in CrossPairs(pts) })

\* w / S * theta_s.sum() + (1 - w) * theta_0 with w = 0.5, times 2 * S
FlipMultiObjective(pts, hh) ==
    SumSeq([s \in 1..Len(pts) |-> FlipThetaS(pts, hh, s)])
      + Len(pts) * FlipTheta0(pts, hh)

\* m.setObjective(..., GRB.MAXIMIZE)
FlipMultiBest(pts) ==
    LET best == SetMax({ FlipMultiObjective(pts, hh) : hh \in ShellVectors(pts) })
    IN { hh \in ShellVectors(pts) : FlipMultiObjective(pts, hh) = best }

\* l[s].append(-points[s][i]) if h[i, s].X == 1 else l[s].append(points[s][i])
FlipShells(pts, hh) == [s \in 1..Len(pts) |-> FlipPoints(pts[s], hh[s])]

dirflipMultiShell ==
    /\ op = "dirflipMultiShell" /\ pc = "start"
    /\ \E o \in (IF \/ \E s \in 1..Len(points) : Len(points[s]) < 2
                    \/ Len(points) < 2
                 THEN Unbounded
                 ELSE Optimize(ShellVectors(points), FlipMultiBest(points))) :
         /\ status' = o[1]
         /\ h' = o[2]
         /\ calls' = calls + 1
         /\ LET r == ReturnOrRaise(o[1], FlipShells(points, o[2]))
            IN pc' = r[1] /\ result' = r[2]
    /\ UNCHANGED <<inputVars, greedyVars, orderVars, cr, files>>

\* the product of N_s[s] * N_s[s] over the shells
RECURSIVE SquareProduct(_)
SquareProduct(pts) ==
    IF pts = <<>> THEN 1 ELSE Len(Head(pts)) * Len(Head(pts)) * SquareProduct(Tail(pts))

\* the inner product of the pair q = (s, i, t, j) of different shells after the flips hh
CrossPairAfter(pts, hh, q) ==
    FlippedProduct(Clip(InnerProduct(pts[q[1]][q[2]], pts[q[3]][q[4]]), -9, 9),
                   FlipX(hh[q[1]][q[2]], hh[q[3]][q[4]]))

RECURSIVE CrossEnergySum(_, _, _, _)
CrossEnergySum(pts, hh, Q, f) ==
    IF Q = {} THEN 0
    ELSE LET q == CHOOSE q \in Q : TRUE
         IN (IF f = 1 THEN HugeTerm(CrossPairAfter(pts, hh, q))
             ELSE EnergyTerm(CrossPairAfter(pts, hh, q)))
              + CrossEnergySum(pts, hh, Q \ {q}, f)

\* the sum over the pairs of different shells of the energy of the pair
CrossEnergy(pts, hh) ==
    << CrossEnergySum(pts, hh, CrossPairs(pts), 1),
       CrossEnergySum(pts, hh, CrossPairs(pts), 2) >>

\* w / S * sum_s E_s / N_s^2 + (1 - w) / L^2 * E_0 with w = 0.5, times
\* 2 * S * L^2 * prod_s N_s^2, for the huge terms (f = 1) and the finite ones
EEMMultiObjective(pts, hh) ==
    LET L == Len(Concat(pts))
        P == SquareProduct(pts)
        part(f) ==
            SumSeq([s \in 1..Len(pts) |->
                      EEMObjective(pts[s], hh[s])[f] * L * L
                        * (P \div (Len(pts[s]) * Len(pts[s])))])
              + Len(pts) * CrossEnergy(pts, hh)[f] * P
    IN <<part(1), part(2)>>

\* m.setObjective(..., GRB.MINIMIZE)
EEMMultiBest(pts) ==
    LET objs == { EEMMultiObjective(pts, hh) : hh \in ShellVectors(pts) }
        best == CHOOSE a \in objs : \A b \in objs : EnergyLeq(a, b)
    IN { hh \in ShellVectors(pts) : EEMMultiObjective(pts, hh) = best }

dirflipMultiShellEEM ==
    /\ op = "dirflipMultiShellEEM" /\ pc = "start"
    /\ \/ \* m.setObjective refuses an infinite coefficient
          /\ InfiniteCoefficient(Concat(points))
          /\ pc' = "error" /\ result' = <<>>
          /\ UNCHANGED solverVars
       \/ \E o \in Optimize(ShellVectors(points), EEMMultiBest(points)) :
             /\ status' = o[1]
             /\ h' = o[2]
             /\ calls' = calls + 1
             /\ LET r == ReturnOrRaise(o[1], FlipShells(points, o[2]))
                IN pc' = r[1] /\ result' = r[2]
    /\ UNCHANGED <<inputVars, greedyVars, orderVars, cr, files>>

\* the inputs of the flip routines: unit vectors with inner products 0, 6/9, 7/9
FlipUniverse == { <<-3, 0, 0>>, <<-2, -2, -1>>, <<0, -3, 0>>, <<2, 2, -1>> }

ShellUniverse == { <<-3, 0, 0>>, <<2, 2, -1>> }

InitFlip ==
    /\ pc = "start"
    /\ \/ /\ op \in {"dirflip", "dirflipEEM"}
          /\ points \in { <<v>> : v \in SeqsOf(FlipUniverse, 1, MaxFlipN) }
       \/ /\ op \in {"dirflipMultiShell", "dirflipMultiShellEEM"}
          /\ points \in { <<a, b>> : a \in SeqsOf(ShellUniverse, 1, MaxFlipShellN),
                                     b \in SeqsOf(ShellUniverse, 1, MaxFlipShellN) }
    /\ antipodal = FALSE
    /\ result = <<>>
    /\ NoSubsetArgs /\ NoOrderArgs /\ NoSolver /\ NoTimeLimit /\ NoOrderState /\ NoMetric /\ NoFiles

NextFlip ==
    \/ dirflip
    \/ dirflipEEM
    \/ dirflipMultiShell
    \/ dirflipMultiShellEEM

SpecFlip == InitFlip /\ [][NextFlip]_vars

FlipOps == {"dirflip", "dirflipEEM", "dirflipMultiShell", "dirflipMultiShellEEM"}

\* C5: every flip routine returns, for every shell, as many points as the input
\* in the same order, output i being p_i or -p_i; so the antipodal covering
\* radius of every shell and of the union of the shells is the one of the input.
C5_FlipKeepsPointsUpToSign ==
    (op \in FlipOps /\ pc = "done") =>
        /\ Len(result) = Len(points)
        /\ \A s \in 1..Len(points) :
             /\ Len(result[s]) = Len(points[s])
             /\ \A i \in 1..Len(points[s]) :
                  result[s][i] \in {points[s][i], Neg(points[s][i])}
             /\ covering_radius(result[s], TRUE) = covering_radius(points[s], TRUE)
        /\ covering_radius(Concat(result), TRUE) = covering_radius(Concat(points), TRUE)

\* a multi-shell flip that negated a point of the first shell and kept one of the second
C5_Witness ==
    /\ op = "dirflipMultiShell" /\ pc = "done"
    /\ Len(points[1]) = 2 /\ Len(points[2]) = 2
    /\ result[1][1] = Neg(points[1][1])
    /\ result[2][1] = points[2][1]

\* the directional covering radius of the output is at least the one of the
\* input: as the smallest angle between two points, and as loss.py computes it
DirectionalRadiusKept(before, after) ==
    /\ MinPairAngle(after) >= MinPairAngle(before)
    /\ covering_radius(after, FALSE) >= covering_radius(before, FALSE)

\* C6 as stated: the directional covering radius of the set a single-shell flip
\* (dirflip, dirflipEEM) returns is at least the one of the input, for every
\* input; taken here at solutions the solver proved optimal.
C6_FlipNeverReducesDirectionalRadius ==
    (op \in {"dirflip", "dirflipEEM"} /\ pc = "done" /\ status = "OPTIMAL"
       /\ Len(points[1]) >= 2) =>
        DirectionalRadiusKept(points[1], result[1])

\* C6 amended: the directional covering radius of the set that dirflip (the
\* distance criterion) returns from a solution proved optimal is at least the
\* one of the input.
C6_OptimalDirflipKeepsDirectionalRadius ==
    (op = "dirflip" /\ pc = "done" /\ status = "OPTIMAL") =>
        DirectionalRadiusKept(points[1], result[1])

\* an optimal dirflip that negated a point and made the smallest angle larger
C6_Witness ==
    /\ op = "dirflip" /\ pc = "done" /\ status = "OPTIMAL"
    /\ \E i \in 1..Len(points[1]) : result[1][i] = Neg(points[1][i])
    /\ MinPairAngle(result[1]) > MinPairAngle(points[1])

-----------------------------------------------------------------------------
(* Combination of shells and b-values: scripts/combine_bvec_bval.py *)

\* the b-vector files hold points of GroupUniverse, the labels are of BvalUniverse
GroupUniverse == { <<3, 0, 0>>, <<1, 2, 2>> }

BvalUniverse == { 1000, 2000 }

\* assert len(bvecs) == len(bvals)
LengthsMatch_Unchecked(bvecs, bvals) == TRUE

LengthsMatch(bvecs, bvals) == Len(bvecs) = Len(bvals)

\* sum(([b for _ in range(n_s)] for n_s, b in zip(N_s, bval)), [])
RECURSIVE RepeatLabels(_, _)
RepeatLabels(bvecs, bvals) ==
    IF bvecs = <<>> \/ bvals = <<>> THEN <<>>
    ELSE [i \in 1..Len(Head(bvecs)) |-> Head(bvals)]
           \o RepeatLabels(Tail(bvecs), Tail(bvals))

\* io_util.combine_bvec_bval: (np.concatenate(bvec), bvalList)
combine_bvec_bval(bvecs, bvals) == <<Concat(bvecs), RepeatLabels(bvecs, bvals)>>

\* main up to the assertion: the arguments are read and their lengths compared
CombineCheck ==
    /\ op = "combine_bvec_bval" /\ pc = "start"
    /\ pc' = IF LengthsMatch(points, bvalues) THEN "checked" ELSE "error"
    /\ UNCHANGED <<inputVars, greedyVars, solverVars, orderVars, result, cr, files>>

\* bvecList, bvalList = combine_bvec_bval(bvecs, bvals)
CombineLists ==
    /\ op = "combine_bvec_bval" /\ pc = "checked"
    /\ result' = combine_bvec_bval(points, bvalues)
    /\ pc' = "combined"
    /\ UNCHANGED <<inputVars, greedyVars, solverVars, orderVars, cr, files>>

\* write_bvec(f"{root}_bvec{ext}", bvecList, ...)
WriteBvec ==
    /\ op = "combine_bvec_bval" /\ pc = "combined"
    /\ files' = files \cup {"bvec"}
    /\ pc' = "bvec_written"
    /\ UNCHANGED <<inputVars, greedyVars, solverVars, orderVars, result, cr>>

\* write_bval(f"{root}_bval{ext}", bvalList, ...)
WriteBval ==
    /\ op = "combine_bvec_bval" /\ pc = "bvec_written"
    /\ files' = files \cup {"bval"}
    /\ pc' = "done"
    /\ UNCHANGED <<inputVars, greedyVars, solverVars, orderVars, result, cr>>

InitCombine ==
    /\ op = "combine_bvec_bval"
    /\ pc = "start"
    /\ points \in SeqsOf(SeqsOf(GroupUniverse, 1, MaxGroupN), 1, MaxGroups)
    /\ bvalues \in SeqsOf(BvalUniverse, 1, MaxLabels)
    /\ points_per_split = <<>>
    /\ antipodal = FALSE
    /\ result = <<>>
    /\ NoSubsetArgs /\ NoSolver /\ NoTimeLimit /\ NoOrderState /\ NoMetric /\ NoFiles

NextCombine ==
    \/ CombineCheck
    \/ CombineLists
    \/ WriteBvec
    \/ WriteBval

SpecCombine == InitCombine /\ [][NextCombine]_vars

\* C9: combining G groups of points with a number of labels other than G is a
\* hard failure before any output file is written: the run never gets past the
\* comparison of the lengths, combines nothing and writes no file.
C9_LengthMismatchFailsBeforeOutput ==
    (op = "combine_bvec_bval" /\ Len(points) # Len(bvalues)) =>
        /\ pc \in {"start", "error"}
        /\ result = <<>>
        /\ files = {}

\* a run with two groups and three labels that ended in the failure
C9_Witness ==
    /\ op = "combine_bvec_bval" /\ pc = "error"
    /\ Len(points) = 2 /\ Len(bvalues) = 3
    /\ files = {}

-----------------------------------------------------------------------------
(* Incremental ordering: sampling/packing_density.py *)

\* np.cos(covering_radius_upper_bound(num)) in units of 1/9000, for num = 3 .. 20
CosUpperBoundTable ==
    << -4500, -3000, -1332, 0, 1051, 1891, 2576, 3143, 3619,
       4025, 4374, 4678, 4945, 5181, 5391, 5579, 5749, 5903 >>

\* np.cos of an angle that np.arccos or covering_radius_upper_bound returned,
\* in units of 1/9000
Cos(a) ==
    IF \E c \in -9..9 : ArcCos(c) = a
    THEN 1000 * (CHOOSE c \in -9..9 : ArcCos(c) = a)
    ELSE CosUpperBoundTable[CHOOSE i \in DOMAIN UpperBoundTable : UpperBoundTable[i] = a]

Range(f) == { f[i] : i \in DOMAIN f }

\* packing_density_loss(vects, start), in units of 1/18000:
\* sum of (1 - cos(covering_radius(cons[:k]))) / 2 * (k + len(start))
packing_density_loss(vects, start) ==
    LET cons == start \o vects
    IN SumSeq([k \in 1..Len(vects) |->
                 (9000 - Cos(covering_radius(SubSeq(cons, 1, k), TRUE)))
                   * (k + Len(start))])

\* dis = np.arccos(np.clip(np.abs(cons @ cons.T), -1, 1))
GreedyDis(p, q) == ArcCos(Clip(Abs(InnerProduct(p, q)), -9, 9))

\* cr of candidate j: the smallest angle to the chosen points and to the start
\* points, capped by radius
GreedyCr_NoStart(cons, start, ind, radius, j) ==
    Min2(SetMin({ GreedyDis(cons[x], cons[j]) : x \in Range(ind) }), radius)

GreedyCr(cons, start, ind, radius, j) ==
    Min2(SetMin({ GreedyDis(cons[x], cons[j]) : x \in Range(ind) }
                  \cup { GreedyDis(y, cons[j]) : y \in Range(start) }),
         radius)

\* the while loop over the indices of one shell: the first index of the largest
\* cr is appended (cr > mx is strict) and caps the radius; value <<ind, radius>>
RECURSIVE GreedyShell(_, _, _, _, _)
GreedyShell(cons, start, ind, radius, indices) ==
    IF indices = {} THEN <<ind, radius>>
    ELSE LET mx == SetMax({ GreedyCr(cons, start, ind, radius, j) : j \in indices })
             pos == SetMin({ j \in indices : GreedyCr(cons, start, ind, radius, j) = mx })
         IN GreedyShell(cons, start, Append(ind, pos), Min2(radius, mx), indices \ {pos})

\* cum[i]: the number of points in the shells before shell i
Cum(pts, i) == SumSeq([s \in 1..(i - 1) |-> Len(pts[s])])

\* the for loop over the shells, from shell i on
RECURSIVE GreedyShells(_, _, _, _, _)
GreedyShells(pts, start, ind, radius, i) ==
    IF i > Len(pts) THEN ind
    ELSE LET r == GreedyShell(Concat(pts), start, ind, radius,
                              ((Cum(pts, i) + 1)..Cum(pts, i + 1)) \ Range(ind))
         IN GreedyShells(pts, start, r[1], r[2], i + 1)

\* greedy_sorting_init(points, init, start): the shells, each in greedy order
greedy_sorting_init(pts, init, start) ==
    LET ind == GreedyShells(pts, start, <<init>>, PiHalf, 1)
    IN [i \in 1..Len(pts) |->
          [j \in 1..Len(pts[i]) |-> Concat(pts)[ind[Cum(pts, i) + j]]]]

\* res = None, the value of greedy_sorting when points[0] is empty (a list of
\* shells otherwise, never empty)
None == <<>>

\* the ordering seeded by the first candidate, whatever its loss
greedy_sorting_FirstSeed(pts, start) ==
    IF Len(pts[1]) = 0 THEN None ELSE greedy_sorting_init(pts, 1, start)

\* greedy_sorting(points, start): the first seed with the largest loss
greedy_sorting(pts, start) ==
    IF Len(pts[1]) = 0 THEN None
    ELSE LET loss(i) == packing_density_loss(Concat(greedy_sorting_init(pts, i, start)), start)
             mx == SetMax({ loss(i) : i \in 1..Len(pts[1]) })
         IN greedy_sorting_init(pts, SetMin({ i \in 1..Len(pts[1]) : loss(i) = mx }), start)

\* dis = np.clip(np.abs(points @ points.T), -1, 1), in units of 1/9000
OrderDis(p, q) == 1000 * Clip(Abs(InnerProduct(p, q)), -9, 9)

\* the SOS1 constraint of every point i over its slots x[i, 0 .. num - 1]
OneSlotPerPoint(a) == \A i, j \in DOMAIN a : i # j => a[i] # a[j]

\* the feasible x: x.sum("*", j) == 1 gives slot j the point a[j] of 1 .. N
Assignments(N, num) == { a \in [1..num -> 1..N] : OneSlotPerPoint(a) }

\* the right-hand sides of the constraints "c" that the choice a makes binding
\* for prefix k: the pairs of candidates both in the first k slots
ChosenPairs(cands, a, k) ==
    { OrderDis(cands[a[q[1]]], cands[a[q[2]]]) : q \in IndexPairs(k) }

\* the same for the constraints "d": a candidate in the first k slots and a fixed point
ChosenFixedPairs(fixed, cands, a, k) ==
    { OrderDis(cands[a[i]], y) : i \in 1..k, y \in Range(fixed) }

\* incremental_sorting_single_shell_init: lb of cos_theta[k], k = 2 .. K
InitLowerBound(k) == Max2(0, Cos(covering_radius_upper_bound(2 * k, FALSE)))

\* the smallest cos_theta[k] that a allows
InitQuality(cands, a, k) == SetMax({InitLowerBound(k)} \cup ChosenPairs(cands, a, k))

\* gp.LinExpr([i for i in range(2, K + 1)], [cos_theta[i] ...]); for K = 1
\* there is no cos_theta and the objective is empty
InitObjective(cands, a) ==
    SumSeq([k \in 1..Len(a) |-> IF k = 1 THEN 0 ELSE k * InitQuality(cands, a, k)])

InitBest(cands, num) ==
    LET best == SetMin({ InitObjective(cands, a) : a \in Assignments(Len(cands), num) })
    IN { a \in Assignments(Len(cands), num) : InitObjective(cands, a) = best }

\* incremental_sorting_single_shell_incre: lb of cos_theta[k] is
\* max(fixed_angle, np.cos(covering_radius_upper_bound(n))) for n = K + k
IncreLowerBound(fixed, n) ==
    Max2(Cos(covering_radius(fixed, TRUE)), Cos(covering_radius_upper_bound(n, TRUE)))

IncreQuality(fixed, cands, a, k) ==
    SetMax({IncreLowerBound(fixed, Len(fixed) + k)}
             \cup ChosenPairs(cands, a, k) \cup ChosenFixedPairs(fixed, cands, a, k))

\* gp.LinExpr([i for i in range(K + 1, K + num + 1)], [cos_theta[i] ...])
IncreObjective(fixed, cands, a) ==
    SumSeq([k \in 1..Len(a) |-> (Len(fixed) + k) * IncreQuality(fixed, cands, a, k)])

IncreBest(fixed, cands, num) ==
    LET best == SetMin({ IncreObjective(fixed, cands, a) : a \in Assignments(Len(cands), num) })
    IN { a \in Assignments(Len(cands), num) : IncreObjective(fixed, cands, a) = best }

\* l[j] = points[i] for the i with x[i, j] = 1
Pick(cands, a) == [j \in 1..Len(a) |-> cands[a[j]]]

\* exclude: the remaining points that coincide with no picked point (eps = 1e-6)
Exclude(remained, pick) == SelectSeq(remained, LAMBDA l : l \notin Range(pick))

\* x[i, j].Start = 1 if i == j else 0: slot j is started with candidate j, for
\* the slots that have a candidate of that index
WarmStart(cands, num) == [j \in 1..Min2(num, Len(cands)) |-> cands[j]]

\* a time limit is <<type, value>>: a Python int, a float, or a list of floats
DefaultTimeLimit == <<"int", 600>>

TimeLimits ==
    { DefaultTimeLimit, <<"float", 600>> }
      \cup { <<"list", l>> : l \in SeqsOf({600}, 1, MaxLimits) }

IsFloat(t) == t[1] = "float"

\* if isinstance(time_limit, float): time_limit = [time_limit for _ in ...]
BatchLimits(t, split) ==
    IF IsFloat(t) THEN <<"list", [i \in 1..Len(split) |-> t[2]]>> ELSE t

IsIterable(t) == t[1] = "list"

\* the number of passes of "for num, t in zip(points_per_split, time_limit)"
Passes(split, t) == Min2(Len(split), Len(BatchLimits(t, split)[2]))

\* one pass of the for loop of incremental_sorting_single_shell, with the
\* return that follows the last pass
incremental_sorting_single_shell ==
    /\ op = "incremental_sorting_single_shell" /\ pc \in {"start", "batch"}
    /\ \E num \in {points_per_split[calls + 1]},
          sorted \in {greedy_sorting(<<remained_points>>, picked_points)} :
         IF ~IsIterable(BatchLimits(time_limit, points_per_split))
         THEN \* zip(points_per_split, time_limit) raises TypeError
              /\ pc' = "error" /\ result' = <<>>
              /\ UNCHANGED <<solverVars, orderVars>>
         ELSE IF sorted = None
         THEN \* None[0]
              /\ pc' = "error" /\ result' = <<>>
              /\ UNCHANGED <<solverVars, orderVars>>
         ELSE \E o \in Optimize(Assignments(Len(sorted[1]), num),
                                 IF calls = 0 THEN InitBest(sorted[1], num)
                                 ELSE IncreBest(picked_points, sorted[1], num)) :
                /\ warm_start' = WarmStart(sorted[1], num)
                /\ status' = o[1]
                /\ h' = o[2]
                /\ calls' = calls + 1
                /\ IF HasSolution(o[1])
                   THEN \E pick \in {Pick(sorted[1], o[2])} :
                          /\ picked_points' = picked_points \o pick
                          /\ remained_points' = Exclude(sorted[1], pick)
                          /\ pc' = IF calls + 1 = Passes(points_per_split, time_limit)
                                   THEN "done" ELSE "batch"
                          /\ result' = IF calls + 1 = Passes(points_per_split, time_limit)
                                       THEN picked_points \o pick
                                       ELSE <<>>
                   ELSE /\ pc' = "error" /\ result' = <<>>
                        /\ remained_points' = sorted[1]
                        /\ UNCHANGED picked_points
    /\ UNCHANGED <<inputVars, greedyVars, fixed_bval, incre_bval, cr, files>>

\* bvals: the b-value of every point of np.concatenate(vects)
RECURSIVE ExpandBvals(_, _)
ExpandBvals(vects, bvals) ==
    IF vects = <<>> \/ bvals = <<>> THEN <<>>
    ELSE [i \in 1..Len(Head(vects)) |-> Head(bvals)]
           \o ExpandBvals(Tail(vects), Tail(bvals))

\* incremental_sorting_multi_shell_incre: lb of cos_theta_0[k], n = K + k
MultiLowerBound(fixed, n) ==
    Max2(IF Len(fixed) > 0 THEN Cos(covering_radius(fixed, TRUE)) ELSE 0,
         Cos(covering_radius_upper_bound(n, TRUE)))

\* the smallest cos_theta_0[k] that a allows
MultiQuality0(fixed, cands, a, k) ==
    SetMax({MultiLowerBound(fixed, Len(fixed) + k)}
             \cup ChosenPairs(cands, a, k) \cup ChosenFixedPairs(fixed, cands, a, k))

\* the pairs of candidates constrained for shell s (s = 1 .. S here, 0 .. S - 1
\* in the code): pos2bval[x[0]] == pos2bval[x[1]] == s
CandidatePairFilter(bi, bj, s) == bi = bj /\ bj = s - 1

\* the pairs of a candidate and a fixed point constrained for shell s:
\* pos2bval[x[0]] == pos2bval[x[1]] == bvalList[s]
FixedPairFilter(bi, bj, s, bvalList) == bi = bj /\ bj = bvalList[s]

\* the smallest cos_theta_s[s, k] that a allows (lb = 0)
MultiQualityS(fixed, fbval, cands, cbval, bvalList, a, s, k) ==
    SetMax({0}
      \cup { OrderDis(cands[a[q[1]]], cands[a[q[2]]]) :
               q \in { r \in IndexPairs(k) :
                         CandidatePairFilter(cbval[a[r[1]]], cbval[a[r[2]]], s) } }
      \cup { OrderDis(cands[a[q[1]]], fixed[q[2]]) :
               q \in { r \in (1..k) \X (1..Len(fixed)) :
                         FixedPairFilter(cbval[a[r[1]]], fbval[r[2]], s, bvalList) } })

\* the objective with w = 0.5 and fraction[s] = N_s / N, times 2 * S * N
MultiOrderObjective(vects, fixed, fbval, cands, cbval, bvalList, a) ==
    LET S == Len(vects)
        N == Len(Concat(vects))
        K == Len(fixed)
    IN SumSeq([s \in 1..S |->
                 SumSeq([k \in 1..Len(a) |->
                           (K + k) * Len(vects[s])
                             * MultiQualityS(fixed, fbval, cands, cbval, bvalList, a, s, k)])])
         + S * N * SumSeq([k \in 1..Len(a) |->
                             (K + k) * MultiQuality0(fixed, cands, a, k)])

MultiOrderBest(vects, fixed, fbval, cands, cbval, bvalList, num) ==
    LET obj(a) == MultiOrderObjective(vects, fixed, fbval, cands, cbval, bvalList, a)
        best == SetMin({ obj(a) : a \in Assignments(Len(cands), num) })
    IN { a \in Assignments(Len(cands), num) : obj(a) = best }

\* incre.pop(i) for i in sorted(picked): every pop moves the later points down
\* by one before the next index is used
RECURSIVE PopAll_Ascending(_, _)
PopAll_Ascending(incre, a) ==
    IF Range(a) = {} THEN incre
    ELSE LET i == SetMin(Range(a))
             rest == SelectSeq(a, LAMBDA x : x # i)
         IN PopAll_Ascending(SubSeq(incre, 1, i - 1) \o SubSeq(incre, i + 1, Len(incre)),
                             rest)

\* incre.pop(i) for i in sorted(picked, reverse=True)
PopAll(incre, a) ==
    LET keep == { i \in 1..Len(incre) : i \notin Range(a) }
        RECURSIVE Kept(_)
        Kept(i) == IF i > Len(incre) THEN <<>>
                   ELSE (IF i \in keep THEN <<incre[i]>> ELSE <<>>) \o Kept(i + 1)
    IN Kept(1)

\* one pass of the for loop of incremental_sorting_multi_shell, with the return
\* that follows the last pass
incremental_sorting_multi_shell ==
    /\ op = "incremental_sorting_multi_shell" /\ pc \in {"start", "batch"}
    /\ LET num == points_per_split[calls + 1]
       IN \E o \in Optimize(Assignments(Len(remained_points), num),
                             MultiOrderBest(points, picked_points, fixed_bval,
                                            remained_points, incre_bval, bvalues, num)) :
            /\ warm_start' = WarmStart(remained_points, num)
            /\ status' = o[1]
            /\ h' = o[2]
            /\ calls' = calls + 1
            /\ IF HasSolution(o[1])
               THEN /\ picked_points' = picked_points \o Pick(remained_points, o[2])
                    /\ fixed_bval' = fixed_bval \o Pick(incre_bval, o[2])
                    /\ remained_points' = PopAll(remained_points, o[2])
                    /\ incre_bval' = PopAll(incre_bval, o[2])
                    /\ pc' = IF calls + 1 = Len(points_per_split) THEN "done" ELSE "batch"
                    /\ result' = IF calls + 1 = Len(points_per_split)
                                 THEN << picked_points \o Pick(remained_points, o[2]),
                                         fixed_bval \o Pick(incre_bval, o[2]) >>
                                 ELSE <<>>
               ELSE /\ pc' = "error" /\ result' = <<>>
                    /\ UNCHANGED <<picked_points, remained_points, fixed_bval, incre_bval>>
    /\ UNCHANGED <<inputVars, greedyVars, cr, files>>

\* the points given to the ordering routines
OrderUniverse == { <<3, 0, 0>>, <<2, 2, -1>>, <<1, 2, 2>> }

MultiOrderUniverse == { <<3, 0, 0>>, <<1, 2, 2>> }

\* the b-values of the two shells: equal to the shell indices, or not
BvalLists == { <<0, 1>>, <<1000, 2000>> }

\* the lists of positive batch sizes that sum to N
Compositions(N) == { c \in SeqsOf(1..N, 1, N) : SumSeq(c) = N }

InitOrder ==
    /\ pc = "start"
    /\ \/ /\ op = "incremental_sorting_single_shell"
          /\ points \in { <<v>> : v \in SeqsOf(OrderUniverse, 1, MaxOrderN) }
          /\ bvalues = <<>>
          /\ incre_bval = <<>>
          /\ time_limit \in TimeLimits
       \/ /\ op = "incremental_sorting_multi_shell"
          /\ points \in { <<a, b>> : a \in SeqsOf(MultiOrderUniverse, 1, MaxMultiOrderN - 1),
                                     b \in SeqsOf(MultiOrderUniverse, 1, MaxMultiOrderN - 1) }
          /\ Len(Concat(points)) <= MaxMultiOrderN
          /\ bvalues \in BvalLists
          /\ incre_bval = ExpandBvals(points, bvalues)
          /\ time_limit = DefaultTimeLimit
    /\ points_per_split \in Compositions(Len(Concat(points)))
    /\ picked_points = <<>>
    /\ remained_points = Concat(points)
    /\ fixed_bval = <<>>
    /\ warm_start = <<>>
    /\ antipodal = TRUE
    /\ result = <<>>
    /\ NoSubsetArgs /\ NoSolver /\ NoGreedy /\ NoMetric /\ NoFiles

NextOrder ==
    \/ incremental_sorting_single_shell
    \/ incremental_sorting_multi_shell

SpecOrder == InitOrder /\ [][NextOrder]_vars

OrderOps == {"incremental_sorting_single_shell", "incremental_sorting_multi_shell"}

\* the points an ordering routine returned
OrderedPoints == IF op = "incremental_sorting_multi_shell" THEN result[1] ELSE result

\* a and b hold the same points, each as often in a as in b
SameBag(a, b) ==
    \A x \in Range(a) \cup Range(b) :
        Cardinality({ i \in DOMAIN a : a[i] = x }) = Cardinality({ i \in DOMAIN b : b[i] = x })

\* C1: for every input and every split into positive batch sizes that sum to N,
\* incremental ordering returns a permutation of the input: after every batch
\* the points ordered so far and the remaining candidates are together the
\* input, no point dropped and none duplicated, the list returned is a
\* permutation of the input, and a run fails only if the solver ran out of
\* time without a solution.
C1_OrderingIsPermutation ==
    op \in OrderOps =>
        /\ SameBag(picked_points \o remained_points, Concat(points))
        /\ pc = "done" => SameBag(OrderedPoints, Concat(points))
        /\ pc = "error" => status = "TIME_LIMIT_NO_SOLUTION"

\* the covering radius of the first k points of the returned ordering
PrefixRadius(k) == covering_radius(SubSeq(OrderedPoints, 1, k), TRUE)

-----------------------------------------------------------------------------
(* The solver at its time limit *)

\* the statuses of a solver call that the time limit ended before a proof of
\* optimality
TimeLimitStatuses == {"TIME_LIMIT", "TIME_LIMIT_NO_SOLUTION"}

\* C11: whenever a solver call ends at its time limit the operation does not
\* fail: it returns the points of the best incumbent, in every state the solver
\* can be in at the time limit.
C11_TimeLimitReturnsIncumbent ==
    (calls > 0 /\ status \in TimeLimitStatuses) =>
        /\ pc # "error"
        /\ h # <<>>

-----------------------------------------------------------------------------
(* Metric library: packing_density_loss and covering_radius_upper_bound called *)
(* on their own                                                                *)

\* the forms in which the callers pass a count: a Python int, a numpy integer
\* (np.sum(points_per_shell)), an element of a numpy array (2 * np.array(...))
ArgumentForms == {"int", "numpy_integer", "array_element"}

\* isinstance(num, int)
IsPythonInt(form) == form = "int"

LossUniverse == { <<3, 0, 0>>, <<2, 2, -1>>, <<1, 2, 2>> }

\* packing_density_loss(vects, start): points holds <<start, vects>>;
\* covering_radius_upper_bound(num): points holds the form of num
InitLoss ==
    /\ pc = "start"
    /\ \/ /\ op = "packing_density_loss"
          /\ points \in { <<st, v>> : st \in SeqsOf(LossUniverse, 0, MaxLossN),
                                      v \in SeqsOf(LossUniverse, 1, MaxLossN) }
          /\ points_per_shell = <<>>
       \/ /\ op = "covering_radius_upper_bound"
          /\ points \in { <<form>> : form \in ArgumentForms }
          /\ points_per_shell \in { <<num>> : num \in 0..MaxBoundN }
    /\ antipodal = TRUE
    /\ result = <<>>
    /\ NoOrderArgs /\ NoSolver /\ NoTimeLimit /\ NoOrderState /\ NoMetric /\ NoFiles

PackingDensityLossCall ==
    /\ op = "packing_density_loss" /\ pc = "start"
    /\ cr' = packing_density_loss(points[2], points[1])
    /\ pc' = "done"
    /\ UNCHANGED <<inputVars, greedyVars, solverVars, orderVars, result, files>>

UpperBoundCall ==
    /\ op = "covering_radius_upper_bound" /\ pc = "start"
    /\ cr' = covering_radius_upper_bound(points_per_shell[1], IsPythonInt(points[1]))
    /\ pc' = "done"
    /\ UNCHANGED <<inputVars, greedyVars, solverVars, orderVars, result, files>>

NextLoss ==
    \/ PackingDensityLossCall
    \/ UpperBoundCall

SpecLoss == InitLoss /\ [][NextLoss]_vars

\* the loss as documented, in units of 1/18000: for k = 1 .. len(vects), the
\* prefix "start followed by the first k points of vects" gives both the
\* covering radius and the weight
PrefixLoss(vects, start) ==
    SumSeq([k \in 1..Len(vects) |->
              (9000 - Cos(covering_radius(start \o SubSeq(vects, 1, k), TRUE)))
                * (Len(start) + k)])

\* C12: packing_density_loss(vects, start) is the sum over k = 1 .. len(vects)
\* of (1 - cos(covering radius of the prefix)) / 2 times the size of the prefix,
\* the prefix being, for the radius as for the size, the existing points
\* followed by the first k new points.
C12_LossUsesTheWeightedPrefix ==
    (op = "packing_density_loss" /\ pc = "done") =>
        cr = PrefixLoss(points[2], points[1])

\* C13: covering_radius_upper_bound(n) is pi / 2 for every n < 3, whatever the
\* form of the argument.
C13_UpperBoundBelowThreeIsPiHalf ==
    (op = "covering_radius_upper_bound" /\ pc = "done" /\ points_per_shell[1] < 3) =>
        cr = PiHalf

-----------------------------------------------------------------------------
(* The composed generation pipeline (scripts/direction_generation.py main).  *)
(* A path is <<directory, name, index>>; the working directory is "tmp" and  *)
(* everything the user names is in "user".  files is the set of paths that   *)
(* exist, result is the log of file accesses <<stage, kind, path>> in the    *)
(* order they happen.  points holds the --initialization files, bvalues the  *)
(* --bval list (<<>> when the option is absent), points_per_shell --number.  *)

Path(dir, name, i) == <<dir, name, i>>

WorkDir == Path("tmp", ".", 0)

UserOutput == Path("user", "output", 0)

UserOutputBvec == Path("user", "output_bvec", 0)

UserOutputBval == Path("user", "output_bval", 0)

UserInit == Path("user", "init", 0)

ReadEvents(stage, paths) == [i \in 1..Len(paths) |-> <<stage, "read", paths[i]>>]

WriteEvents(stage, paths) == [i \in 1..Len(paths) |-> <<stage, "write", paths[i]>>]

PathSet(paths) == { paths[i] : i \in 1..Len(paths) }

\* "{root}{ext}" for one shell, "{root}_shell{i}{ext}" otherwise
ShellFiles(name, l) ==
    IF l = 1 THEN << Path("tmp", name, 0) >>
    ELSE [i \in 1..l |-> Path("tmp", name \o "_shell", i - 1)]

ShellInputs_Unsuffixed(name, l) == << Path("tmp", name, 0) >>

\* the shell files handed to the next stage by the driver
ShellInputs(name, l) ==
    IF l = 1 THEN << Path("tmp", name, 0) >>
    ELSE [i \in 1..l |-> Path("tmp", name \o "_shell", i - 1)]

\* a stage that raises ends the pipeline where it stands
StageRaises(stage, reads) ==
    /\ pc' = "error"
    /\ result' = result \o ReadEvents(stage, reads)
    /\ UNCHANGED files

StageWrites(stage, reads, writes, next) ==
    /\ pc' = next
    /\ result' = result \o ReadEvents(stage, reads) \o WriteEvents(stage, writes)
    /\ files' = files \cup PathSet(writes)

\* os.mkdir(rd_path), then continous_main with --output = rd/scheme.txt
PipelineGenerate ==
    /\ op = "direction_generation" /\ pc = "start"
    /\ LET l == Len(points_per_shell)
       IN \/ /\ pc' = "generated"
             /\ result' = result \o ReadEvents("generate", points)
                                 \o WriteEvents("generate", ShellFiles("scheme", l))
             /\ files' = files \cup {WorkDir} \cup PathSet(ShellFiles("scheme", l))
          \/ /\ pc' = "error"
             /\ result' = result \o ReadEvents("generate", points)
             /\ files' = files \cup {WorkDir}
    /\ UNCHANGED <<inputVars, greedyVars, solverVars, orderVars, cr>>

\* flip_main with --input = the scheme files, --output = rd/flipped.txt
PipelineFlip ==
    /\ op = "direction_generation" /\ pc = "generated"
    /\ LET l == Len(points_per_shell)
       IN \/ StageWrites("flip", ShellInputs("scheme", l),
                         ShellFiles("flipped", l), "flipped")
          \/ StageRaises("flip", ShellInputs("scheme", l))
    /\ UNCHANGED <<inputVars, greedyVars, solverVars, orderVars, cr>>

\* one shell: the driver writes rd/bval.txt when --bval is given
PipelineBval ==
    /\ op = "direction_generation" /\ pc = "flipped"
    /\ Len(points_per_shell) = 1
    /\ IF bvalues # <<>>
       THEN StageWrites("driver", <<>>, << Path("tmp", "bval", 0) >>, "ready")
       ELSE StageWrites("driver", <<>>, <<>>, "ready")
    /\ UNCHANGED <<inputVars, greedyVars, solverVars, orderVars, cr>>

\* several shells: --bval is required, then combine_main with
\* --output = rd/combine.txt
PipelineCombine ==
    /\ op = "direction_generation" /\ pc = "flipped"
    /\ Len(points_per_shell) > 1
    /\ LET l == Len(points_per_shell)
       IN IF bvalues = <<>>
          THEN StageRaises("driver", <<>>)
          ELSE IF Len(bvalues) # l
          THEN StageRaises("combine", ShellInputs("flipped", l))
          ELSE \/ StageWrites("combine", ShellInputs("flipped", l),
                              << Path("tmp", "combine_bvec", 0),
                                 Path("tmp", "combine_bval", 0) >>, "ready")
               \/ StageRaises("combine", ShellInputs("flipped", l))
    /\ UNCHANGED <<inputVars, greedyVars, solverVars, orderVars, cr>>

\* the BVEC and BVAL arguments the driver hands to order_main
OrderInputs ==
    IF Len(points_per_shell) = 1
    THEN IF bvalues # <<>>
         THEN << Path("tmp", "flipped", 0), Path("tmp", "bval", 0) >>
         ELSE << Path("tmp", "flipped", 0) >>
    ELSE << Path("tmp", "combine_bvec", 0), Path("tmp", "combine_bval", 0) >>

\* order_main writes "{root}_bvec{ext}" and "{root}_bval{ext}" when BVAL is
\* set and "{root}{ext}" otherwise
OrderOutputs ==
    IF Len(OrderInputs) = 2 THEN << UserOutputBvec, UserOutputBval >>
    ELSE << UserOutput >>

InWorkDir(path) == path[1] = "tmp"

\* shutil.rmtree(rd_path)
Rmtree(fs) == { f \in fs : ~InWorkDir(f) }

\* order_main with --output = the user's path, then the directory is removed
PipelineOrder ==
    /\ op = "direction_generation" /\ pc = "ready"
    /\ \/ /\ pc' = "done"
          /\ result' = result \o ReadEvents("order", OrderInputs)
                              \o WriteEvents("order", OrderOutputs)
          /\ files' = Rmtree(files \cup PathSet(OrderOutputs))
       \/ StageRaises("order", OrderInputs)
    /\ UNCHANGED <<inputVars, greedyVars, solverVars, orderVars, cr>>

InitPipeline ==
    /\ op = "direction_generation" /\ pc = "start"
    /\ points \in { <<>>, << UserInit >> }
    /\ antipodal = TRUE
    /\ points_per_shell \in SeqsOf(1..MaxK, 1, MaxShells)
    /\ points_per_split = <<>>
    /\ bvalues \in SeqsOf(BvalUniverse, 0, MaxShells)
    /\ result = <<>>
    /\ NoSolver /\ NoTimeLimit /\ NoOrderState /\ NoMetric /\ NoFiles

NextPipeline ==
    \/ PipelineGenerate
    \/ PipelineFlip
    \/ PipelineBval
    \/ PipelineCombine
    \/ PipelineOrder

SpecPipeline == InitPipeline /\ [][NextPipeline]_vars

StageRank(stage) ==
    CASE stage = "generate" -> 1
      [] stage = "flip" -> 2
      [] stage = "driver" -> 3
      [] stage = "combine" -> 3
      [] stage = "order" -> 4

Stages == { result[i][1] : i \in 1..Len(result) }

\* the stages never interleave or go backwards, and a finished run has gone
\* through generate, flip, (combine for more than one shell), order
StagesInOrder ==
    /\ \A i, j \in 1..Len(result) :
          i < j => StageRank(result[i][1]) <= StageRank(result[j][1])
    /\ pc = "done" =>
          /\ {"generate", "flip", "order"} \subseteq Stages
          /\ ("combine" \in Stages) <=> (Len(points_per_shell) > 1)

WrittenEarlier(j) ==
    /\ InWorkDir(result[j][3])
    /\ \E i \in 1..(j - 1) :
          /\ result[i][2] = "write" /\ result[i][3] = result[j][3]
          /\ StageRank(result[i][1]) < StageRank(result[j][1])

OutputOnlyByOrder ==
    \A i \in 1..Len(result) :
       (result[i][2] = "write" /\ ~InWorkDir(result[i][3])) => result[i][1] = "order"

\* C14 (as stated): the stages run in the order generate, flip, (combine),
\* order; every file a stage reads was written by an earlier stage inside
\* the working directory; only the order stage writes the user's output.
C14_StagesReadOnlyPipelineFiles ==
    /\ StagesInOrder
    /\ \A j \in 1..Len(result) : result[j][2] = "read" => WrittenEarlier(j)
    /\ OutputOnlyByOrder

\* C14 (amended): the same, except that the generate stage also reads the
\* user's initialization file when --initialization is given.
C14_StagesReadPipelineFilesOrInit ==
    /\ StagesInOrder
    /\ \A j \in 1..Len(result) :
          result[j][2] = "read" =>
             \/ WrittenEarlier(j)
             \/ result[j][1] = "generate" /\ result[j][3] = UserInit
    /\ OutputOnlyByOrder

\* a finished run of several shells that was given an initialization file
C14_Witness ==
    /\ op = "direction_generation" /\ pc = "done"
    /\ Len(points_per_shell) > 1 /\ points = << UserInit >>
    /\ UserOutputBvec \in files
    /\ \E j \in 1..Len(result) : result[j] = <<"order", "read", Path("tmp", "combine_bvec", 0)>>

-----------------------------------------------------------------------------
(* Time limits of incremental_sorting_single_shell *)

ScalarForms == {"int", "float"}

\* C15: called with a scalar time limit (the integer default 600 included),
\* incremental_sorting_single_shell gives every batch to the solver: it does
\* not fail before the first batch is solved, and when it returns it has
\* solved one model per batch of points_per_split.
C15_ScalarLimitOrdersEveryBatch ==
    (op = "incremental_sorting_single_shell" /\ time_limit[1] \in ScalarForms) =>
        /\ pc = "error" => calls > 0
        /\ pc = "done" => calls = Len(points_per_split)

-----------------------------------------------------------------------------
(* The continuous optimizer: sampling/cnlo.py, cnlo_optimize.  The starting  *)
(* point comes from the electrostatic initializer or from the caller, and    *)
(* the sequential solver moves it; what cnlo_optimize returns is an array of *)
(* nb_points unit vectors, and every such array over the universe is a       *)
(* possible outcome here.                                                    *)

CnloUniverse ==
    { <<3,0,0>>, <<0,3,0>>, <<0,0,3>>, <<-3,0,0>>, <<0,-3,0>>, <<0,0,-3>>,
      <<1,-2,-2>>, <<1,-2,2>>, <<1,2,-2>>, <<1,2,2>>,
      <<2,-2,-1>>, <<2,-2,1>>, <<2,-1,-2>>, <<2,-1,2>>,
      <<2,1,-2>>, <<2,1,2>>, <<2,2,-1>>, <<2,2,1>> }

RECURSIVE SetToSeq(_)
SetToSeq(S) ==
    IF S = {} THEN <<>>
    ELSE LET x == CHOOSE y \in S : TRUE IN <<x>> \o SetToSeq(S \ {x})

\* the arrays of n distinct unit vectors
Configurations(n) == { SetToSeq(S) : S \in { T \in SUBSET CnloUniverse : Cardinality(T) = n } }

\* nb_points = np.sum(points_per_shell)
nb_points == SumSeq(points_per_shell)

\* upper_bound_spherical_all: the bound for 2 nb_points points if antipodal
upper_bound_spherical_all ==
    covering_radius_upper_bound(IF antipodal THEN 2 * nb_points ELSE nb_points, FALSE)

\* cnlo_optimize(points_per_shell, None, antipodal)
cnlo_optimize ==
    /\ op = "cnlo_optimize" /\ pc = "start"
    /\ \E vects \in Configurations(nb_points) :
          /\ result' = vects
          /\ pc' = "done"
    /\ UNCHANGED <<inputVars, greedyVars, solverVars, orderVars, cr, files>>

InitCnlo ==
    /\ op = "cnlo_optimize" /\ pc = "start"
    /\ points = <<>>
    /\ antipodal \in BOOLEAN
    /\ points_per_shell \in { <<n>> : n \in 3..MaxCnloN }
    /\ result = <<>>
    /\ NoOrderArgs /\ NoSolver /\ NoTimeLimit /\ NoOrderState /\ NoMetric /\ NoFiles

NextCnlo == cnlo_optimize

SpecCnlo == InitCnlo /\ [][NextCnlo]_vars

SixAntipodal ==
    op = "cnlo_optimize" /\ pc = "done" /\ antipodal /\ points_per_shell = <<6>>

-----------------------------------------------------------------------------
(* The linearization of the relative polarity in the flip models *)

\* x[i, j] is continuous with lb = 0 and ub = 1: the values k / XScale
XValues == 0..XScale

FlipXValues_NoUpperPair(a, b) ==
    { x \in XValues : /\ x <= XScale * (a + b)
                      /\ x >= XScale * (a - b)
                      /\ x >= XScale * (b - a) }

\* the values of x[i, j] that satisfy the four inequalities for h_i = a, h_j = b
FlipXValues(a, b) ==
    { x \in XValues : /\ x <= XScale * (a + b)
                      /\ x >= XScale * (a - b)
                      /\ x >= XScale * (b - a)
                      /\ x <= XScale * (2 - a - b) }

\* the flip decisions of a solution, shell after shell
FlatH == IF op \in {"dirflipMultiShell", "dirflipMultiShellEEM"} THEN Concat(h) ELSE h

FlatPoints == Concat(points)

\* C17: for the flip decisions h_i, h_j of every pair of points of a solution,
\* the four inequalities leave exactly one value to x[i, j]; it is 1 if exactly
\* one of the two points is flipped and 0 otherwise, so the angle used for the
\* pair is pi - dis for exactly the pairs whose relative polarity changes.
C17_LinearizationIsExclusiveOr ==
    (op \in FlipOps /\ HasSolution(status)) =>
        \A hh \in {FlatH}, pp \in {FlatPoints} :
           /\ \A a, b \in Range(hh) :
                 /\ FlipXValues(a, b) = { IF a # b THEN XScale ELSE 0 }
                 /\ XScale * FlipX(a, b) \in FlipXValues(a, b)
           /\ \A i, j \in 1..Len(hh) :
                 \A dis \in {FlipDis(pp[i], pp[j])} :
                    FlippedAngle(dis, FlipX(hh[i], hh[j]))
                       = IF hh[i] # hh[j] THEN Pi - dis ELSE dis

\* a solution that flips both points of one pair and one point of another
C17_Witness ==
    /\ op \in FlipOps /\ HasSolution(status)
    /\ \E i, j, k \in 1..Len(FlatH) :
          /\ FlatH[i] = 1 /\ FlatH[j] = 1 /\ FlatH[k] = 0
          /\ i # j
          /\ FlipDis(FlatPoints[i], FlatPoints[k]) # PiHalf

-----------------------------------------------------------------------------
(* The pairs constrained per shell in the multi-shell ordering model *)

\* C18: in the model built for a batch of incremental_sorting_multi_shell, a
\* constraint on the series of shell s is generated for a pair of candidates,
\* and for a pair of a candidate and a fixed point, exactly if both points
\* carry the b-value of shell s.
C18_ShellPairsAreTheSameShellPairs ==
    (op = "incremental_sorting_multi_shell" /\ pc \in {"start", "batch"}) =>
        \A s \in 1..Len(bvalues) :
           /\ \A i, j \in 1..Len(incre_bval) :
                 i < j =>
                    (CandidatePairFilter(incre_bval[i], incre_bval[j], s)
                       <=> (incre_bval[i] = bvalues[s] /\ incre_bval[j] = bvalues[s]))
           /\ \A i \in 1..Len(incre_bval), j \in 1..Len(fixed_bval) :
                 FixedPairFilter(incre_bval[i], fixed_bval[j], s, bvalues)
                    <=> (incre_bval[i] = bvalues[s] /\ fixed_bval[j] = bvalues[s])

-----------------------------------------------------------------------------
(* The greedy sequencer step by step: greedy_sorting_init(points, init,     *)
(* start).  points is the list of shells, picked_points is start,           *)
(* greedy_ind and greedy_radius are ind and radius, indices count from 1.   *)

GreedyUniverse == { <<3, 0, 0>>, <<2, 2, -1>>, <<1, 2, 2>> }

StartUniverse == { <<1, 2, 2>> }

\* range(cum[i], cum[i + 1])
ShellRange(pts, i) == (Cum(pts, i) + 1)..Cum(pts, i + 1)

\* the shell whose while loop runs when n indices are in ind
ShellAt(pts, n) == SetMin({ i \in 1..Len(pts) : Cum(pts, i + 1) > n })

\* indices: the range of shell i without ind[0] (for the first shell) and
\* without the positions appended since
Remaining(pts, indl, i) ==
    ShellRange(pts, i) \ { indl[k] : k \in (Cum(pts, i) + 1)..Len(indl) }

GreedyResult_NoOffset(pts, start, indl) ==
    [i \in 1..Len(pts) |->
       [j \in 1..Len(pts[i]) |-> (start \o Concat(pts))[indl[Cum(pts, i) + j]]]]

\* li.append(cons[ind[j] + l]) for j in range(cum[i], cum[i + 1]), cons being
\* np.concatenate([start, cons])
GreedyResult(pts, start, indl) ==
    [i \in 1..Len(pts) |->
       [j \in 1..Len(pts[i]) |->
          (start \o Concat(pts))[indl[Cum(pts, i) + j] + Len(start)]]]

\* ind = [init]; radius = np.pi / 2
GreedyStart ==
    /\ op = "greedy_sorting_init" /\ pc = "start"
    /\ greedy_ind' = <<greedy_init>>
    /\ greedy_radius' = PiHalf
    /\ pc' = "loop"
    /\ UNCHANGED <<inputVars, solverVars, picked_points, remained_points,
                   fixed_bval, incre_bval, warm_start, greedy_init, result, cr, files>>

\* one pass of the while loop
GreedyAppend ==
    /\ op = "greedy_sorting_init" /\ pc = "loop"
    /\ Len(greedy_ind) < Len(Concat(points))
    /\ \E indices \in { Remaining(points, greedy_ind, ShellAt(points, Len(greedy_ind))) } :
         \E mx \in { SetMax({ GreedyCr(Concat(points), picked_points, greedy_ind,
                                       greedy_radius, j) : j \in indices }) } :
           \E pos \in { SetMin({ j \in indices :
                                   GreedyCr(Concat(points), picked_points, greedy_ind,
                                            greedy_radius, j) = mx }) } :
              /\ greedy_ind' = Append(greedy_ind, pos)
              /\ greedy_radius' = Min2(greedy_radius, mx)
    /\ UNCHANGED <<inputVars, solverVars, picked_points, remained_points,
                   fixed_bval, incre_bval, warm_start, greedy_init, pc, result, cr, files>>

\* the loops are over: the shells are cut out of ind and returned
GreedyReturn ==
    /\ op = "greedy_sorting_init" /\ pc = "loop"
    /\ Len(greedy_ind) = Len(Concat(points))
    /\ result' = GreedyResult(points, picked_points, greedy_ind)
    /\ pc' = "done"
    /\ UNCHANGED <<inputVars, solverVars, orderVars, greedyVars, cr, files>>

InitGreedy ==
    /\ op = "greedy_sorting_init" /\ pc = "start"
    /\ points \in { <<a>> : a \in SeqsOf(GreedyUniverse, 1, MaxGreedyN) }
                    \cup { <<a, b>> : a \in SeqsOf(GreedyUniverse, 1, MaxGreedyN),
                                      b \in SeqsOf(GreedyUniverse, 0, MaxGreedyN - 1) }
    /\ Len(Concat(points)) <= MaxGreedyN
    /\ picked_points \in SeqsOf(StartUniverse, 0, 1)
    /\ greedy_init \in 1..Len(points[1])
    /\ greedy_ind = <<>> /\ greedy_radius = 0 - 1
    /\ remained_points = <<>> /\ fixed_bval = <<>> /\ incre_bval = <<>>
    /\ warm_start = <<>>
    /\ antipodal = TRUE
    /\ result = <<>>
    /\ NoSubsetArgs /\ NoOrderArgs /\ NoSolver /\ NoTimeLimit /\ NoMetric /\ NoFiles

NextGreedy ==
    \/ GreedyStart
    \/ GreedyAppend
    \/ GreedyReturn

SpecGreedy == InitGreedy /\ [][NextGreedy]_vars

\* the step by step run returns what the operator greedy_sorting_init gives
GreedyStepsAgree ==
    (op = "greedy_sorting_init" /\ pc = "done") =>
        result = greedy_sorting_init(points, greedy_init, picked_points)

\* the smallest angle between point j and the points chosen before (prior)
\* and the start points
MinAngle(j, prior) ==
    SetMin({ GreedyDis(Concat(points)[x], Concat(points)[j]) : x \in Range(prior) }
             \cup { GreedyDis(y, Concat(points)[j]) : y \in Range(picked_points) })

\* the points chosen before the last one
Prior == SubSeq(greedy_ind, 1, Len(greedy_ind) - 1)

LastPos == greedy_ind[Len(greedy_ind)]

\* the points of the shell being processed that were left when the last
\* point was chosen
LeftBefore == ShellRange(points, ShellAt(points, Len(Prior))) \ Range(Prior)

\* the smallest of pi/2 and of the values MinAngle had for the points chosen
\* before the last one
RunningRadius ==
    SetMin({PiHalf} \cup { MinAngle(greedy_ind[u], SubSeq(greedy_ind, 1, u - 1)) :
                             u \in 2..Len(Prior) })

Appended == op = "greedy_sorting_init" /\ pc \in {"loop", "done"} /\ Len(greedy_ind) >= 2

C20_GreedyReturnsShellPermutations ==
    op = "greedy_sorting_init" =>
        /\ pc = "loop" =>
              /\ Len(greedy_ind) <= Len(Concat(points))
              /\ \A u, v \in 1..Len(greedy_ind) : u # v => greedy_ind[u] # greedy_ind[v]
              /\ Len(greedy_ind) < Len(Concat(points)) =>
                    Remaining(points, greedy_ind, ShellAt(points, Len(greedy_ind))) # {}
        /\ pc = "done" =>
              /\ Len(result) = Len(points)
              /\ \A s \in 1..Len(points) :
                    Len(result[s]) = Len(points[s]) /\ SameBag(result[s], points[s])
              /\ result[1][1] = points[1][greedy_init]

\* a returned run of two shells with start points, whose first shell was put
\* in another order
C20_Witness ==
    /\ op = "greedy_sorting_init" /\ pc = "done"
    /\ Len(points) = 2 /\ Len(points[1]) >= 2 /\ Len(points[2]) >= 1
    /\ picked_points # <<>>
    /\ result[1] # points[1]

-----------------------------------------------------------------------------
(* The warm start of the batch models *)

\* the greedy orderings of the candidates, one for each seed, that score no
\* less than the ordering of any other seed
BestSeededOrderings(cands, start) ==
    UNION { UNION { { G[i] : i \in { i \in DOMAIN G : \A k \in DOMAIN G : loss[i] >= loss[k] } }
                    : loss \in { [i \in DOMAIN G |-> packing_density_loss(G[i], start)] } }
            : G \in { [i \in 1..Len(cands) |-> greedy_sorting_init(<<cands>>, i, start)[1]] } }

\* a batch model was built and given to the solver in this step
BatchSolved == calls' = calls + 1

\* C21 as stated: in every batch of either ordering routine the model is
\* started, slot by slot, with the leading points of a greedy ordering of the
\* remaining candidates that scores best among the orderings of all seeds.
C21_WarmStartIsBestGreedyOrdering ==
    [][(op \in OrderOps /\ BatchSolved) =>
          \E g \in BestSeededOrderings(remained_points, picked_points) :
              warm_start' = WarmStart(g, points_per_split[calls + 1])]_vars

\* C21 amended: in every batch of incremental_sorting_single_shell the model is
\* started, slot by slot, with the leading points of a greedy ordering of the
\* remaining candidates that scores best among the orderings of all seeds; the
\* batch model of incremental_sorting_multi_shell is started with the
\* candidates in the order in which they stand.
C21_SingleShellWarmStartIsBestGreedyOrdering ==
    [][BatchSolved =>
          /\ op = "incremental_sorting_single_shell" =>
                \E g \in BestSeededOrderings(remained_points, picked_points) :
                    warm_start' = WarmStart(g, points_per_split[calls + 1])
          /\ op = "incremental_sorting_multi_shell" =>
                warm_start' = WarmStart(remained_points, points_per_split[calls + 1])]_vars

\* a first batch of the single-shell routine started with the two leading
\* points of the greedy ordering seeded by the second candidate, which are not
\* the two leading candidates of the input
C21_Witness ==
    /\ op = "incremental_sorting_single_shell" /\ calls = 1
    /\ points = << << <<2, 2, -1>>, <<3, 0, 0>>, <<1, 2, 2>> >> >>
    /\ points_per_split = <<2, 1>>
    /\ warm_start = << <<3, 0, 0>>, <<1, 2, 2>> >>

-----------------------------------------------------------------------------
(* Points and b-values of the multi-shell ordering *)

\* the pairs <<point, b-value>> of two lists of equal length
Zip(pts, bvals) == [k \in 1..Len(pts) |-> <<pts[k], bvals[k]>>]

\* the input points, each with the b-value of its shell
ShellLabelled == Zip(Concat(points), ExpandBvals(points, bvalues))

\* C22: in incremental_sorting_multi_shell, after any number of batches, the
\* k-th b-value ordered so far is the b-value of the shell from which the k-th
\* ordered point was taken: the ordered points with their b-values, together
\* with the remaining candidates with theirs, are the input points with the
\* b-values of their shells, and so are the two lists returned.
C22_BvalueFollowsItsPoint ==
    op = "incremental_sorting_multi_shell" =>
        /\ Len(fixed_bval) = Len(picked_points)
        /\ Len(incre_bval) = Len(remained_points)
        /\ SameBag(Zip(picked_points, fixed_bval) \o Zip(remained_points, incre_bval),
                   ShellLabelled)
        /\ pc = "done" =>
              /\ Len(result[1]) = Len(result[2])
              /\ SameBag(Zip(result[1], result[2]), ShellLabelled)

\* an ordering returned after two batches that begins with a point of the
\* second shell and goes on with one of the first
C22_Witness ==
    /\ op = "incremental_sorting_multi_shell" /\ pc = "done" /\ calls = 2
    /\ points = << << <<3, 0, 0>> >>, << <<1, 2, 2>>, <<3, 0, 0>> >> >>
    /\ bvalues = <<1000, 2000>>
    /\ result[1][1] = <<1, 2, 2>> /\ result[2] = <<2000, 1000, 2000>>

-----------------------------------------------------------------------------
(* The denominators of the energy terms *)

EEMOps == {"dirflipEEM", "dirflipMultiShellEEM"}

\* the denominator (1 - x) ** order of f, order = 1, for x = c / 9, in ninths:
\* nothing is added to it
FlipDenominator(c) == 9 - c

\* the denominators of f(dis[i, j]) and f(-dis[i, j]) over the pairs of the
\* objective (the pairs within a shell and the pairs across shells)
EEMDenominators(pts) ==
    { FlipDenominator(sign * Clip(InnerProduct(pts[q[1]], pts[q[2]]), -9, 9)) :
        q \in IndexPairs(Len(pts)), sign \in {1, 0 - 1} }

\* C23: for every input of the energy-based flip routines, coincident and
\* antipodal pairs included, no energy term has a zero denominator, and the
\* objective is never refused for an infinite coefficient.
C23_EnergyDenominatorsAreNonZero ==
    (op \in EEMOps /\ pc # "start") =>
        /\ 0 \notin EEMDenominators(Concat(points))
        /\ ~(pc = "error" /\ calls = 0)

-----------------------------------------------------------------------------
(* The optimization problem of cnlo_optimize: sampling/cnlo.py *)

\* the unit vectors of an initialization
ProblemUniverse == { <<3, 0, 0>>, <<0, 3, 0>>, <<-2, -2, 1>>, <<1, 2, 2>> }

\* the largest number of points of an initialization
MaxProblemN == 4

\* the largest number of shells
MaxProblemShells == 2

\* nb_shells = len(points_per_shell)
nb_shells == Len(points_per_shell)

\* the initialization, an array of nb_points rows
initialization == points[1]

\* indices = np.cumsum(points_per_shell) with 0 inserted in front: the number
\* of points before shell s
indices(s) == SumSeq(SubSeq(points_per_shell, 1, s - 1))

\* the rows of shell s
ShellRows(s) == (indices(s) + 1)..indices(s + 1)

\* np.cos(2 * delta + covering_radius_upper_bound(num)) for delta = 0.1 and
\* num = 3 .. 20: the least c with c / 9 >= that cosine
CosBoundTable == << -5, -4, -3, -1, 0, 1, 1, 2, 2, 3, 3, 4, 4, 4, 4, 5, 5, 5 >>

\* transform(np.dot(p, q)) >= np.cos(2 * delta + bound(num)), the bound being
\* taken of a numpy integer: for num < 3 it is nan and the comparison is False
WithinBound(p, q, num) ==
    /\ covering_radius_upper_bound(num, FALSE) # NaN
    /\ Transform(antipodal, InnerProduct(p, q)) >= CosBoundTable[num - 2]

\* upper_bound_spherical[s] is the bound for 2 * Ks points if antipodal, for Ks if not
ShellNum(s) == IF antipodal THEN 2 * points_per_shell[s] ELSE points_per_shell[s]

\* the position of an index tuple in the order of the loops that append it
LoopKey(x) ==
    IF Len(x) = 3 THEN (x[1] * 10 + x[2]) * 10 + x[3]
    ELSE ((x[1] * 10 + x[2]) * 10 + x[3]) * 10 + x[4]

RECURSIVE InLoopOrder(_)
InLoopOrder(X) ==
    IF X = {} THEN <<>>
    ELSE LET m == CHOOSE x \in X : \A y \in X : LoopKey(x) <= LoopKey(y)
         IN <<m>> \o InLoopOrder(X \ {m})

\* spherical_index: (s, i, j) for the pairs i < j of shell s within the bound
spherical_index ==
    InLoopOrder({ <<s, i, j>> \in (1..nb_shells) \X (1..nb_points) \X (1..nb_points) :
                    /\ i \in ShellRows(s) /\ j \in ShellRows(s) /\ i < j
                    /\ WithinBound(initialization[i], initialization[j], ShellNum(s)) })

\* cross_spherical_index: (i, j) for i in shell s and j in a later shell t,
\* within the bound of all points, in the order of the loops over s, t, i, j
cross_spherical_index ==
    LET all == IF antipodal THEN 2 * nb_points ELSE nb_points
        X == { <<s, t, i, j>> \in (1..nb_shells) \X (1..nb_shells)
                                    \X (1..nb_points) \X (1..nb_points) :
                 /\ s < t /\ i \in ShellRows(s) /\ j \in ShellRows(t)
                 /\ WithinBound(initialization[i], initialization[j], all) }
        ordered == InLoopOrder(X)
    IN [r \in 1..Len(ordered) |-> <<ordered[r][3], ordered[r][4]>>]

\* initialization.flatten()
Flatten(pts) == Concat([i \in 1..Len(pts) |-> pts[i]])

\* init_theta: the covering radius of every shell, then of all points
init_theta ==
    [s \in 1..(nb_shells + 1) |->
       IF s <= nb_shells
       THEN covering_radius(SubSeq(initialization, indices(s) + 1, indices(s + 1)), antipodal)
       ELSE covering_radius(initialization, antipodal)]

\* vects = np.concatenate([initialization.flatten(), np.array(init_theta)])
StateVector == Flatten(initialization) \o init_theta

\* the columns of point i in the state vector: 3 * i : 3 * (i + 1)
PointCols(i) == (3 * (i - 1) + 1)..(3 * i)

\* the column of theta_s: 3 * N + s
ThetaCol(s) == 3 * nb_points + s

\* the column of theta_0: -1, the last one
Theta0Col == 3 * nb_points + nb_shells + 1

\* a constraint value: its family, the points it reads and the coefficients of
\* the radius variables it reads
Value(family, pts, lin) == [family |-> family, points |-> pts, lin |-> lin]

\* a gradient row: its number of columns, the point columns it fills and the
\* entries of the radius columns it sets
Row(width, cols, lin) == [width |-> width, cols |-> cols, lin |-> lin]

\* arccos(transform(p_i . p_j)) - vects[3 * N + s] for (s, i, j) in spherical_index
inequality_constraints_9b(sph) ==
    [r \in 1..Len(sph) |->
       Value("9b", {sph[r][2], sph[r][3]}, {<<ThetaCol(sph[r][1]), 0 - 1>>})]

\* grad = np.zeros((len(spherical_index), N * 3 + S + 1)), one row per index
grad_inequality_constraints_9b(sph) ==
    [r \in 1..Len(sph) |->
       Row(nb_points * 3 + nb_shells + 1,
           PointCols(sph[r][2]) \cup PointCols(sph[r][3]),
           {<<ThetaCol(sph[r][1]), 0 - 1>>})]

\* arccos(transform(p_i . p_j)) - vects[-1] for (i, j) in cross_spherical_index
inequality_constraints_9c(cross) ==
    [r \in 1..Len(cross) |->
       Value("9c", {cross[r][1], cross[r][2]}, {<<Theta0Col, 0 - 1>>})]

grad_inequality_constraints_9c(cross) ==
    [r \in 1..Len(cross) |->
       Row(nb_points * 3 + nb_shells + 1,
           PointCols(cross[r][1]) \cup PointCols(cross[r][2]),
           {<<Theta0Col, 0 - 1>>})]

\* delta - arccos(transform((points * init).sum(1))): one value per point
inequality_constraints_9d ==
    [i \in 1..nb_points |-> Value("9d", {i}, {})]

\* grad = np.zeros((N, N * 3 + S + 1)), row i filled in the columns of point i
grad_inequality_constraints_9d ==
    [i \in 1..nb_points |-> Row(nb_points * 3 + nb_shells + 1, PointCols(i), {})]

\* vects[3 * N : 3 * N + s] - vects[-1]: theta_s - theta_0 for every shell
inequality_constraints_9e ==
    [s \in 1..nb_shells |-> Value("9e", {}, {<<ThetaCol(s), 1>>, <<Theta0Col, 0 - 1>>})]

\* grad = np.zeros((S, N * 3 + S + 1)); grad[i, 3 * N + i] = 1; grad[i, -1] = -1
grad_inequality_constraints_9e ==
    [s \in 1..nb_shells |->
       Row(nb_points * 3 + nb_shells + 1, {}, {<<ThetaCol(s), 1>>, <<Theta0Col, 0 - 1>>})]

\* np.concatenate of the four families: 9b, 9c, 9d, 9e
inequality_constraints(sph, cross) ==
    inequality_constraints_9b(sph) \o inequality_constraints_9c(cross)
      \o inequality_constraints_9d \o inequality_constraints_9e

\* the gradients stacked with the trust region before the cross-shell pairs
grad_inequality_constraints_Reordered(sph, cross) ==
    grad_inequality_constraints_9b(sph) \o grad_inequality_constraints_9d
      \o grad_inequality_constraints_9c(cross) \o grad_inequality_constraints_9e

\* np.concatenate of the four gradients: 9b, 9c, 9d, 9e
grad_inequality_constraints(sph, cross) ==
    grad_inequality_constraints_9b(sph) \o grad_inequality_constraints_9c(cross)
      \o grad_inequality_constraints_9d \o grad_inequality_constraints_9e

\* cnlo_optimize up to the call of fmin_slsqp: the index lists and the state vector
cnlo_problem ==
    /\ op = "cnlo_problem" /\ pc = "start"
    /\ result' = [spherical_index |-> spherical_index,
                  cross_spherical_index |-> cross_spherical_index,
                  vects |-> StateVector]
    /\ pc' = "indexed"
    /\ UNCHANGED <<inputVars, greedyVars, solverVars, orderVars, cr, files>>

\* fmin_slsqp evaluates f_ieqcons and fprime_ieqcons at the state vector
fmin_slsqp ==
    /\ op = "cnlo_problem" /\ pc = "indexed"
    /\ result' = [spherical_index |-> result.spherical_index,
                  cross_spherical_index |-> result.cross_spherical_index,
                  vects |-> result.vects,
                  f_ieqcons |-> inequality_constraints(result.spherical_index,
                                                       result.cross_spherical_index),
                  fprime_ieqcons |-> grad_inequality_constraints(result.spherical_index,
                                                                 result.cross_spherical_index)]
    /\ pc' = "evaluated"
    /\ UNCHANGED <<inputVars, greedyVars, solverVars, orderVars, cr, files>>

InitProblem ==
    /\ op = "cnlo_problem" /\ pc = "start"
    /\ points \in { <<v>> : v \in SeqsOf(ProblemUniverse, 1, MaxProblemN) }
    /\ points_per_shell \in { c \in Compositions(Len(points[1])) : Len(c) <= MaxProblemShells }
    /\ antipodal \in BOOLEAN
    /\ result = <<>>
    /\ NoOrderArgs /\ NoSolver /\ NoTimeLimit /\ NoOrderState /\ NoMetric /\ NoFiles

NextProblem ==
    \/ cnlo_problem
    \/ fmin_slsqp

SpecProblem == InitProblem /\ [][NextProblem]_vars

\* the rows of the stacked list that belong to a family
FamilyRows(values, family) == { r \in DOMAIN values : values[r].family = family }

UpperBoundsOf(values, s) ==
    { r \in DOMAIN values :
        /\ <<ThetaCol(s), 0 - 1>> \in values[r].lin
        /\ \A e \in values[r].lin : e[2] < 0 }

\* C27: in cnlo_optimize, for every list of shell sizes, a shell of a single
\* point included, every per-shell radius variable theta_s is bounded above by
\* at least one generated inequality constraint, so that the maximized
\* objective is bounded.
C27_EveryShellRadiusIsBounded ==
    (op = "cnlo_problem" /\ pc = "evaluated") =>
        \A s \in 1..nb_shells : UpperBoundsOf(result.f_ieqcons, s) # {}

-----------------------------------------------------------------------------
(* The constraints of the batch models *)

\* gp.LinExpr([1 for _ in range(k)], [x[i, l] for l in range(k)]): 1 if point i
\* stands in one of the first k slots
PrefixSum(a, i, k) == IF \E l \in 1..k : l <= Len(a) /\ a[l] = i THEN 1 ELSE 0

\* M of the model of the first batch (2) and of the later batches (np.pi / 2),
\* in units of 1/9000
InitM == 18000

IncreM == 14137

\* ub = 1 of every cos_theta, in units of 1/9000
QualityUpperBound == 9000

\* the constraints "c" of prefix k for the pairs of candidates in pairs:
\* value >= dis[i][j] - (2 - sum x[i, :k] - sum x[j, :k]) * M
ConstraintsC(value, cands, a, k, bigM, pairs) ==
    \A p \in pairs :
        value >= OrderDis(cands[p[1]], cands[p[2]])
                   - (2 - PrefixSum(a, p[1], k) - PrefixSum(a, p[2], k)) * bigM

\* the constraints "d" of prefix k for the pairs <<candidate, fixed point>> in pairs:
\* value >= dis[i][j] - (1 - sum x[i, :k]) * M
ConstraintsD(value, fixed, cands, a, k, bigM, pairs) ==
    \A p \in pairs :
        value >= OrderDis(cands[p[1]], fixed[p[2]]) - (1 - PrefixSum(a, p[1], k)) * bigM

\* cos_theta[k] < cos_theta[k + 1] in place of <=
Monotone_Strict(q, first) == \A k \in first..(Len(q) - 1) : q[k] < q[k + 1]

\* m.addConstrs(cos_theta[k] <= cos_theta[k + 1] for k in range(first, num))
Monotone(q, first) == \A k \in first..(Len(q) - 1) : q[k] <= q[k + 1]

\* incremental_sorting_single_shell_init: q[k] is cos_theta[k] for k = 2 .. K
InitModelFeasible(cands, a, q) ==
    /\ OneSlotPerPoint(a)
    /\ \A k \in 2..Len(a) :
          /\ InitLowerBound(k) <= q[k] /\ q[k] <= QualityUpperBound
          /\ ConstraintsC(q[k], cands, a, k, InitM, IndexPairs(Len(cands)))
    /\ Monotone(q, 2)

\* incremental_sorting_single_shell_incre: q[k] is cos_theta[k] for k = 1 .. num
IncreModelFeasible(fixed, cands, a, q) ==
    /\ OneSlotPerPoint(a)
    /\ \A k \in 1..Len(a) :
          /\ IncreLowerBound(fixed, Len(fixed) + k) <= q[k] /\ q[k] <= QualityUpperBound
          /\ ConstraintsC(q[k], cands, a, k, IncreM, IndexPairs(Len(cands)))
          /\ ConstraintsD(q[k], fixed, cands, a, k, IncreM,
                          (1..Len(cands)) \X (1..Len(fixed)))
    /\ Monotone(q, 1)

\* incremental_sorting_multi_shell_incre: q0[k] is cos_theta_0[k] and qs[s][k]
\* is cos_theta_s[s, k], for k = 1 .. num
MultiModelFeasible(fixed, fbval, cands, cbval, bvalList, a, q0, qs) ==
    /\ OneSlotPerPoint(a)
    /\ \A k \in 1..Len(a) :
          /\ MultiLowerBound(fixed, Len(fixed) + k) <= q0[k] /\ q0[k] <= QualityUpperBound
          /\ ConstraintsC(q0[k], cands, a, k, IncreM, IndexPairs(Len(cands)))
          /\ ConstraintsD(q0[k], fixed, cands, a, k, IncreM,
                          (1..Len(cands)) \X (1..Len(fixed)))
          /\ \A s \in 1..Len(bvalList) :
                /\ 0 <= qs[s][k] /\ qs[s][k] <= QualityUpperBound
                /\ ConstraintsC(qs[s][k], cands, a, k, IncreM,
                                { p \in IndexPairs(Len(cands)) :
                                    CandidatePairFilter(cbval[p[1]], cbval[p[2]], s) })
                /\ ConstraintsD(qs[s][k], fixed, cands, a, k, IncreM,
                                { p \in (1..Len(cands)) \X (1..Len(fixed)) :
                                    FixedPairFilter(cbval[p[1]], fbval[p[2]], s, bvalList) })
    /\ Monotone(q0, 1)
    /\ \A s \in 1..Len(bvalList) : Monotone(qs[s], 1)

\* a batch model is about to be built: the candidates it is given (None if
\* greedy_sorting has nothing to order) and its number of slots
BatchAhead ==
    /\ op \in OrderOps /\ pc \in {"start", "batch"} /\ remained_points # <<>>
    /\ op = "incremental_sorting_single_shell" =>
          IsIterable(BatchLimits(time_limit, points_per_split))

BatchCandidates ==
    IF op = "incremental_sorting_single_shell"
    THEN greedy_sorting(<<remained_points>>, picked_points)[1]
    ELSE remained_points

\* the least prefix qualities that the bounds and the prefix constraints allow
\* for the assignment a (slot 1 of the first single-shell model has none)
LeastQualities(cands, a) ==
    [k \in 1..Len(a) |->
       IF op = "incremental_sorting_multi_shell"
       THEN MultiQuality0(picked_points, cands, a, k)
       ELSE IF calls = 0 THEN (IF k = 1 THEN 0 ELSE InitQuality(cands, a, k))
       ELSE IncreQuality(picked_points, cands, a, k)]

LeastShellQualities(cands, a) ==
    [s \in 1..Len(bvalues) |->
       [k \in 1..Len(a) |->
          MultiQualityS(picked_points, fixed_bval, cands, incre_bval, bvalues, a, s, k)]]

\* C25: in every batch model the monotonicity constraints exclude no
\* ordering: for every assignment of candidates to slots that satisfies the
\* assignment constraints there are prefix qualities within their bounds that
\* satisfy all prefix constraints and the monotonicity constraints; the least
\* values that the bounds and the prefix constraints allow are such qualities.
C25_MonotonicityExcludesNoOrdering ==
    BatchAhead =>
        \A cands \in {BatchCandidates} :
           \A a \in Assignments(Len(cands), points_per_split[calls + 1]) :
              \E q \in {LeastQualities(cands, a)} :
                 IF op = "incremental_sorting_multi_shell"
                 THEN \E qs \in {LeastShellQualities(cands, a)} :
                         MultiModelFeasible(picked_points, fixed_bval, cands, incre_bval,
                                            bvalues, a, q, qs)
                 ELSE IF calls = 0 THEN InitModelFeasible(cands, a, q)
                 ELSE IncreModelFeasible(picked_points, cands, a, q)

\* a second batch of two slots ahead for which some assignment has a second
\* prefix quality above the first
C25_Witness ==
    /\ BatchAhead /\ op = "incremental_sorting_single_shell"
    /\ calls = 1 /\ points_per_split = <<1, 2>>
    /\ \E a \in Assignments(Len(remained_points), 2) :
          LeastQualities(BatchCandidates, a)[1] < LeastQualities(BatchCandidates, a)[2]

-----------------------------------------------------------------------------
(* Subsampling from several point groups: scripts/direction_subsampling.py  *)
(* and multiple_subset_from_multiple_set of sampling/subsample.py           *)

\* the points of the input groups
GroupPointUniverse == { <<3, 0, 0>>, <<2, 2, -1>>, <<1, 2, 2>>, <<-1, 2, 2>> }

\* the largest number of points of a group
MaxSetN == 2

\* the largest number of requested per-shell counts
MaxNumbers == 3

\* numbers, the list given as --number
numbers == points_per_shell

\* inputBvec, the point groups read from the files given as --input
inputBvec == points

\* the selections h[i, s] with h.sum("*", s) == points_per_shell[s] (11e), one
\* binary vector for each of the first S groups
SetSelections(pts, Ks) ==
    { hh \in ShellVectors(SubSeq(pts, 1, Len(Ks))) :
        \A s \in 1..Len(Ks) : SumSeq(hh[s]) = Ks[s] }

\* the right-hand sides of 12a for shell s and of the bound of theta_s
SetThetaSLimits(pts, Ks, anti, hh, s) ==
    Bound(ThetaSUpperBound(Ks, s)) \cup
    { SubsetDis(pts[s], anti, q[1], q[2]) + M * (2 - hh[s][q[1]] - hh[s][q[2]]) :
        q \in IndexPairs(Len(pts[s])) }

\* the right-hand sides of 12b, which has a row for every pair of points of
\* two different shells s < t, and of the bound of theta_0
SetTheta0Limits(pts, Ks, anti, hh) ==
    Bound(Theta0UpperBound(Ks)) \cup
    UNION { { SubsetDis(<<pts[st[1]][q[1]], pts[st[2]][q[2]]>>, anti, 1, 2)
                + M * (2 - hh[st[1]][q[1]] - hh[st[2]][q[2]]) :
                q \in (1..Len(pts[st[1]])) \X (1..Len(pts[st[2]])) } :
            st \in IndexPairs(Len(Ks)) }

\* some radius variable has neither a bound nor a constraint
SetUnbounded(pts, Ks, anti) ==
    \E hh \in SetSelections(pts, Ks) :
        \/ SetTheta0Limits(pts, Ks, anti, hh) = {}
        \/ \E s \in 1..Len(Ks) : SetThetaSLimits(pts, Ks, anti, hh, s) = {}

\* the feasible solutions <<h, theta_s, theta_0>> of model PDMM (lb = None:
\* every radius is at least 0), each radius at 0 or at the largest value that
\* its rows and its bound allow
SetFeasible(pts, Ks, anti) ==
    UNION { UNION { { <<hh, ts, t0>> :
                        ts \in { v \in [1..Len(Ks) -> {0} \cup Range(top)] :
                                   \A s \in 1..Len(Ks) : v[s] \in {0, top[s]} },
                        t0 \in {0, SetMin(SetTheta0Limits(pts, Ks, anti, hh))} } :
                    top \in { [s \in 1..Len(Ks) |->
                                 SetMin(SetThetaSLimits(pts, Ks, anti, hh, s))] } } :
            hh \in SetSelections(pts, Ks) }

\* w / S * theta_s.sum() + (1 - w) * theta_0 with w = 0.5, times 2 * S
SetObjective(sol) == SumSeq(sol[2]) + Len(sol[2]) * sol[3]

SetBest(pts, Ks, anti) ==
    LET F == SetFeasible(pts, Ks, anti)
        best == SetMax({ SetObjective(sol) : sol \in F })
    IN { sol \in F : SetObjective(sol) = best }

\* main() of the driver up to the call, for more than one input group: the
\* comparison len(inputBvec) == len(numbers) is evaluated and its value dropped
direction_subsampling ==
    /\ op = "direction_subsampling" /\ pc = "start"
    /\ Len(inputBvec) # 1
    /\ pc' = "call"
    /\ UNCHANGED <<inputVars, greedyVars, solverVars, orderVars, result, cr, files>>

multiple_subset_from_multiple_set ==
    /\ op = "direction_subsampling" /\ pc = "call"
    /\ LET pts == inputBvec
           Ks == numbers
           nanBound == \/ Theta0UpperBound(Ks) = NaN
                       \/ \E s \in 1..Len(Ks) : ThetaSUpperBound(Ks, s) = NaN
       IN IF Len(Ks) > Len(pts)
          THEN \* N_s[s] for a shell without a group raises IndexError
               /\ pc' = "error" /\ result' = <<>>
               /\ UNCHANGED solverVars
          ELSE \/ \* m.addVars(..., ub=nan) is refused by the solver interface
                  /\ nanBound
                  /\ pc' = "error" /\ result' = <<>>
                  /\ UNCHANGED solverVars
               \/ \E o \in (IF SetUnbounded(pts, Ks, antipodal) THEN Unbounded
                            ELSE Optimize(SetFeasible(pts, Ks, antipodal),
                                          SetBest(pts, Ks, antipodal))) :
                     /\ status' = o[1]
                     /\ h' = o[2]
                     /\ calls' = calls + 1
                     /\ LET r == ReturnOrRaise(o[1],
                                   IF HasSolution(o[1])
                                   THEN [s \in 1..Len(Ks) |-> SelectPoints(pts[s], o[2][1][s])]
                                   ELSE <<>>)
                        IN /\ pc' = IF r[1] = "done" THEN "returned" ELSE r[1]
                           /\ result' = r[2]
    /\ UNCHANGED <<inputVars, greedyVars, orderVars, cr, files>>

\* write_bvec(f"{root}_shell{i}{ext}", points, ...) for every shell of the output
write_subsample_result ==
    /\ op = "direction_subsampling" /\ pc = "returned"
    /\ files' = files \cup { Path("user", "output_shell", i - 1) : i \in 1..Len(result) }
    /\ pc' = "done"
    /\ UNCHANGED <<inputVars, greedyVars, solverVars, orderVars, result, cr>>

InitMultiSet ==
    /\ op = "direction_subsampling" /\ pc = "start"
    /\ points \in SeqsOf(SeqsOf(GroupPointUniverse, 1, MaxSetN), 2, 2)
    /\ points_per_shell \in SeqsOf(1..MaxK, 1, MaxNumbers)
    /\ antipodal \in BOOLEAN
    /\ result = <<>>
    /\ NoOrderArgs /\ NoSolver /\ NoTimeLimit /\ NoOrderState /\ NoMetric /\ NoFiles

NextMultiSet ==
    \/ direction_subsampling
    \/ multiple_subset_from_multiple_set
    \/ write_subsample_result

SpecMultiSet == InitMultiSet /\ [][NextMultiSet]_vars

\* the smallest angle between two of the selected points of all shells
SelectedMinAngle(sel, anti) ==
    SetMin({ SubsetDis(Concat(sel), anti, q[1], q[2]) : q \in IndexPairs(Len(Concat(sel))) })

\* C26: at every feasible solution of multiple_subset_from_multiple_set the
\* variable theta_0 is at most the smallest angle between two selected points
\* of all shells taken together, so it never exceeds the angle of a selected
\* pair of one shell.
C26_Theta0IsBelowEverySelectedPair ==
    (op = "direction_subsampling" /\ pc \in {"returned", "done"}
       /\ Len(numbers) = Len(inputBvec) /\ Len(Concat(result)) >= 2) =>
        h[3] <= SelectedMinAngle(result, antipodal)

\* C30: a request with more than one point group whose number of groups
\* differs from the number of per-shell counts is rejected before any solver
\* is invoked: the solver is never called and nothing is returned or written.
C30_GroupCountMismatchIsRejected ==
    (op = "direction_subsampling" /\ Len(inputBvec) > 1
       /\ Len(inputBvec) # Len(numbers) /\ pc # "start") =>
        /\ calls = 0
        /\ pc = "error"


(***************************************************************************)
(* gen_split: the batch sizes the ordering driver derives from the         *)
(* ordering batch size and the number of points.                           *)
(***************************************************************************)
MaxSplitNum == 8
MaxSplitN == 13

\* the while loop of gen_split: append num_per_split while another whole batch fits
RECURSIVE gen_split_loop(_, _, _, _)
gen_split_loop(l, acc, num_per_split, total) ==
    IF acc + num_per_split <= total
    THEN gen_split_loop(Append(l, num_per_split), acc + num_per_split, num_per_split, total)
    ELSE <<l, acc>>

gen_split(num_per_split, total) ==
    LET looped == gen_split_loop(<<num_per_split>>, num_per_split, num_per_split, total)
    IN  IF looped[2] < total THEN Append(looped[1], total - looped[2]) ELSE looped[1]

\* the driver computes the batch sizes it hands to the ordering routine
direction_order_split ==
    /\ op = "gen_split" /\ pc = "start"
    /\ points_per_split' = gen_split(result.num_per_split, result.n)
    /\ pc' = "returned"
    /\ UNCHANGED <<op, points, antipodal, points_per_shell, bvalues, time_limit,
                   status, h, calls, picked_points, remained_points, fixed_bval,
                   incre_bval, warm_start, greedy_init, greedy_ind, greedy_radius,
                   result, cr, files>>

InitSplit ==
    /\ op = "gen_split" /\ pc = "start"
    /\ result \in [num_per_split : 1..MaxSplitNum, n : 1..MaxSplitN]
    /\ points = <<>> /\ antipodal = FALSE
    /\ NoSubsetArgs /\ NoOrderArgs /\ NoSolver /\ NoTimeLimit /\ NoOrderState
    /\ NoMetric /\ NoFiles

NextSplit == direction_order_split

SpecSplit == InitSplit /\ [][NextSplit]_vars

\* C28: for every num_per_split >= 1 and n >= 1, gen_split(num_per_split, n)
\* returns positive batch sizes, each at most num_per_split, whose sum is n.
C28_SplitSumsToN ==
    (op = "gen_split" /\ pc = "returned") =>
        /\ \A i \in 1..Len(points_per_split) :
              points_per_split[i] \in 1..result.num_per_split
        /\ SumSeq(points_per_split) = result.n


\* C29: whenever the composed generation pipeline terminates, normally or
\* because one of its stages fails, its private working directory has been
\* removed together with everything in it.
C29_WorkDirRemovedAtTermination ==
    (op = "direction_generation" /\ pc \in {"done", "error"}) =>
        \A f \in files : ~InWorkDir(f)

=============================================================================
